---- MODULE Spec2Model ----
(***************************************************************************)
(* AtlasIQ front end: the query pipeline of App.jsx (text normalisation,   *)
(* query classification, static location detection, handleExplore), the   *)
(* tab session of the useGlobe hook and the photo markers of Globe.jsx.    *)
(*                                                                         *)
(* JavaScript strings are sequences of one-character strings, so that      *)
(* toLowerCase, trim, startsWith, includes and the regular expressions     *)
(* are computed and not assumed.                                           *)
(***************************************************************************)
EXTENDS Integers, Sequences, FiniteSets, Bags, TLC

\* ------------------------------------------------------------------------
\* Strings
\* ------------------------------------------------------------------------

LowerLetters ==
  {"a","b","c","d","e","f","g","h","i","j","k","l","m",
   "n","o","p","q","r","s","t","u","v","w","x","y","z"}

UpperToLower ==
  [c \in {"A","B","C","D","E","F","G","H","I","J","K","L","M",
          "N","O","P","Q","R","S","T","U","V","W","X","Y","Z"} |->
     CASE c = "A" -> "a" [] c = "B" -> "b" [] c = "C" -> "c" [] c = "D" -> "d"
       [] c = "E" -> "e" [] c = "F" -> "f" [] c = "G" -> "g" [] c = "H" -> "h"
       [] c = "I" -> "i" [] c = "J" -> "j" [] c = "K" -> "k" [] c = "L" -> "l"
       [] c = "M" -> "m" [] c = "N" -> "n" [] c = "O" -> "o" [] c = "P" -> "p"
       [] c = "Q" -> "q" [] c = "R" -> "r" [] c = "S" -> "s" [] c = "T" -> "t"
       [] c = "U" -> "u" [] c = "V" -> "v" [] c = "W" -> "w" [] c = "X" -> "x"
       [] c = "Y" -> "y" [] c = "Z" -> "z"]

Digits == {"0","1","2","3","4","5","6","7","8","9"}

\* \w of a JavaScript regular expression
IsWordChar(c) == c \in LowerLetters \cup DOMAIN UpperToLower \cup Digits \cup {"_"}

\* \s of a JavaScript regular expression (the model's alphabet has the blank only)
IsSpace(c) == c = " "

\* String.prototype.toLowerCase
toLowerCase(s) ==
  [i \in 1..Len(s) |-> IF s[i] \in DOMAIN UpperToLower THEN UpperToLower[s[i]] ELSE s[i]]

\* String.prototype.slice(n) with n counted from 0
sliceFrom(s, n) == SubSeq(s, n + 1, Len(s))

\* String.prototype.slice(0, n)
sliceTo(s, n) == SubSeq(s, 1, IF n < Len(s) THEN n ELSE Len(s))

\* String.prototype.trim
trim(s) ==
  LET nonBlank == {i \in 1..Len(s) : ~IsSpace(s[i])}
  IN  IF nonBlank = {} THEN <<>>
      ELSE LET first == CHOOSE i \in nonBlank : \A j \in nonBlank : i <= j
               last  == CHOOSE i \in nonBlank : \A j \in nonBlank : i >= j
           IN  SubSeq(s, first, last)

\* s has w at (1-based) position i
HasAt(s, w, i) ==
  /\ i >= 1
  /\ i + Len(w) - 1 <= Len(s)
  /\ \A k \in 1..Len(w) : s[i + k - 1] = w[k]

\* String.prototype.startsWith
startsWith(s, p) == HasAt(s, p, 1)

\* String.prototype.includes
includes(s, w) == \E i \in 1..(Len(s) + 1) : HasAt(s, w, i)

\* ------------------------------------------------------------------------
\* Regular expressions (the subset App.jsx uses), as syntax trees
\* ------------------------------------------------------------------------

Lit(w)  == [t |-> "lit",  s |-> w,    rs |-> <<>>]
Cat(rs) == [t |-> "cat",  s |-> <<>>, rs |-> rs]
Alt(rs) == [t |-> "alt",  s |-> <<>>, rs |-> rs]
Opt(r)  == [t |-> "opt",  s |-> <<>>, rs |-> <<r>>]
WB      == [t |-> "wb",   s |-> <<>>, rs |-> <<>>]
BOL     == [t |-> "bol",  s |-> <<>>, rs |-> <<>>]
EOL     == [t |-> "eol",  s |-> <<>>, rs |-> <<>>]
WS1     == [t |-> "ws1",  s |-> <<>>, rs |-> <<>>]
DOTS    == [t |-> "dots", s |-> <<>>, rs |-> <<>>]

\* \b at position i: exactly one of s[i-1], s[i] is a word character
AtWordBoundary(s, i) ==
  LET before == i - 1 >= 1 /\ IsWordChar(s[i - 1])
      after  == i <= Len(s) /\ IsWordChar(s[i])
  IN  before # after

RECURSIVE Match(_, _, _), MatchSeq(_, _, _)

\* the positions at which a match of r that starts at position i of s can end
\* (the position of the next character); every way of matching is kept, as
\* the backtracking of the regular expression engine tries them all
Match(r, s, i) ==
  CASE r.t = "lit"  -> IF HasAt(s, r.s, i) THEN {i + Len(r.s)} ELSE {}
    [] r.t = "wb"   -> IF AtWordBoundary(s, i) THEN {i} ELSE {}
    [] r.t = "bol"  -> IF i = 1 THEN {i} ELSE {}
    [] r.t = "eol"  -> IF i = Len(s) + 1 THEN {i} ELSE {}
    [] r.t = "ws1"  -> {j \in (i + 1)..(Len(s) + 1) : \A k \in i..(j - 1) : IsSpace(s[k])}
    [] r.t = "dots" -> i..(Len(s) + 1)
    [] r.t = "opt"  -> {i} \cup Match(r.rs[1], s, i)
    [] r.t = "alt"  -> UNION {Match(r.rs[k], s, i) : k \in DOMAIN r.rs}
    [] r.t = "cat"  -> MatchSeq(r.rs, s, {i})

MatchSeq(rs, s, from) ==
  IF rs = <<>> THEN from
  ELSE MatchSeq(Tail(rs), s, UNION {Match(Head(rs), s, i) : i \in from})

\* RegExp.prototype.test
test(r, s) == \E i \in 1..(Len(s) + 1) : Match(r, s, i) # {}

\* App.jsx AGENT_PATTERNS (flag i: matched against the lower-cased input)
AGENT_PATTERNS ==
  <<
    \* /^(compare|vs\.?|versus)\b/
    Cat(<<BOL, Alt(<<Lit(<<"c","o","m","p","a","r","e">>),
      Cat(<<Lit(<<"v","s">>), Opt(Lit(<<".">>))>>),
      Lit(<<"v","e","r","s","u","s">>)>>), WB>>),
    \* /\b(compare|vs\.?|versus|compared to)\b.*\b(and|with|to)\b/
    Cat(<<WB, Alt(<<Lit(<<"c","o","m","p","a","r","e">>),
      Cat(<<Lit(<<"v","s">>), Opt(Lit(<<".">>))>>),
      Lit(<<"v","e","r","s","u","s">>),
      Lit(<<"c","o","m","p","a","r","e","d"," ","t","o">>)>>), WB, DOTS,
      WB, Alt(<<Lit(<<"a","n","d">>), Lit(<<"w","i","t","h">>),
      Lit(<<"t","o">>)>>), WB>>),
    \* /^(which|what|how|why|who|where|when|is|are|do|does|can|should|rank|list|top|best|worst|safest|cheapest)\b/
    Cat(<<BOL, Alt(<<Lit(<<"w","h","i","c","h">>),
      Lit(<<"w","h","a","t">>), Lit(<<"h","o","w">>), Lit(<<"w","h","y">>),
      Lit(<<"w","h","o">>), Lit(<<"w","h","e","r","e">>),
      Lit(<<"w","h","e","n">>), Lit(<<"i","s">>), Lit(<<"a","r","e">>),
      Lit(<<"d","o">>), Lit(<<"d","o","e","s">>), Lit(<<"c","a","n">>),
      Lit(<<"s","h","o","u","l","d">>), Lit(<<"r","a","n","k">>),
      Lit(<<"l","i","s","t">>), Lit(<<"t","o","p">>),
      Lit(<<"b","e","s","t">>), Lit(<<"w","o","r","s","t">>),
      Lit(<<"s","a","f","e","s","t">>),
      Lit(<<"c","h","e","a","p","e","s","t">>)>>), WB>>),
    \* /\?$/
    Cat(<<Lit(<<"?">>), EOL>>),
    \* /\b(news|weather|forecast|temperature|climate|events?|festivals?|tips?|advice|guide|budget|cost|safety|visa|currency|language|culture|traditions?|history|facts?|trivia)\b/
    Cat(<<WB, Alt(<<Lit(<<"n","e","w","s">>),
      Lit(<<"w","e","a","t","h","e","r">>),
      Lit(<<"f","o","r","e","c","a","s","t">>),
      Lit(<<"t","e","m","p","e","r","a","t","u","r","e">>),
      Lit(<<"c","l","i","m","a","t","e">>),
      Cat(<<Lit(<<"e","v","e","n","t">>), Opt(Lit(<<"s">>))>>),
      Cat(<<Lit(<<"f","e","s","t","i","v","a","l">>), Opt(Lit(<<"s">>))>>),
      Cat(<<Lit(<<"t","i","p">>), Opt(Lit(<<"s">>))>>),
      Lit(<<"a","d","v","i","c","e">>), Lit(<<"g","u","i","d","e">>),
      Lit(<<"b","u","d","g","e","t">>), Lit(<<"c","o","s","t">>),
      Lit(<<"s","a","f","e","t","y">>), Lit(<<"v","i","s","a">>),
      Lit(<<"c","u","r","r","e","n","c","y">>),
      Lit(<<"l","a","n","g","u","a","g","e">>),
      Lit(<<"c","u","l","t","u","r","e">>),
      Cat(<<Lit(<<"t","r","a","d","i","t","i","o","n">>),
      Opt(Lit(<<"s">>))>>), Lit(<<"h","i","s","t","o","r","y">>),
      Cat(<<Lit(<<"f","a","c","t">>), Opt(Lit(<<"s">>))>>),
      Lit(<<"t","r","i","v","i","a">>)>>), WB>>)
  >>

\* App.jsx PLACES_PATTERNS (flag i)
PLACES_PATTERNS ==
  <<
    \* /\b(restaurants?|food|eat|eating|dine|dining|cafe|cafes|coffee|bakery|bakeries|dessert|brunch|breakfast|lunch|dinner|street\s+food)\b/
    Cat(<<WB,
      Alt(<<Cat(<<Lit(<<"r","e","s","t","a","u","r","a","n","t">>),
      Opt(Lit(<<"s">>))>>), Lit(<<"f","o","o","d">>), Lit(<<"e","a","t">>),
      Lit(<<"e","a","t","i","n","g">>), Lit(<<"d","i","n","e">>),
      Lit(<<"d","i","n","i","n","g">>), Lit(<<"c","a","f","e">>),
      Lit(<<"c","a","f","e","s">>), Lit(<<"c","o","f","f","e","e">>),
      Lit(<<"b","a","k","e","r","y">>),
      Lit(<<"b","a","k","e","r","i","e","s">>),
      Lit(<<"d","e","s","s","e","r","t">>),
      Lit(<<"b","r","u","n","c","h">>),
      Lit(<<"b","r","e","a","k","f","a","s","t">>),
      Lit(<<"l","u","n","c","h">>), Lit(<<"d","i","n","n","e","r">>),
      Cat(<<Lit(<<"s","t","r","e","e","t">>), WS1,
      Lit(<<"f","o","o","d">>)>>)>>), WB>>),
    \* /\b(hotels?|hostels?|resorts?|stays?|accommodation|lodge|motel|guesthouse)\b/
    Cat(<<WB, Alt(<<Cat(<<Lit(<<"h","o","t","e","l">>),
      Opt(Lit(<<"s">>))>>), Cat(<<Lit(<<"h","o","s","t","e","l">>),
      Opt(Lit(<<"s">>))>>), Cat(<<Lit(<<"r","e","s","o","r","t">>),
      Opt(Lit(<<"s">>))>>), Cat(<<Lit(<<"s","t","a","y">>),
      Opt(Lit(<<"s">>))>>),
      Lit(<<"a","c","c","o","m","m","o","d","a","t","i","o","n">>),
      Lit(<<"l","o","d","g","e">>), Lit(<<"m","o","t","e","l">>),
      Lit(<<"g","u","e","s","t","h","o","u","s","e">>)>>), WB>>),
    \* /\b(shopping|mall|market|bazaar|stores?|boutique|souvenir)\b/
    Cat(<<WB, Alt(<<Lit(<<"s","h","o","p","p","i","n","g">>),
      Lit(<<"m","a","l","l">>), Lit(<<"m","a","r","k","e","t">>),
      Lit(<<"b","a","z","a","a","r">>), Cat(<<Lit(<<"s","t","o","r","e">>),
      Opt(Lit(<<"s">>))>>), Lit(<<"b","o","u","t","i","q","u","e">>),
      Lit(<<"s","o","u","v","e","n","i","r">>)>>), WB>>),
    \* /\b(attractions?|sightseeing|museums?|temples?|church|mosque|monuments?|landmarks?|parks?|gardens?|zoo|aquarium|palace|fort|castle|gallery|galleries)\b/
    Cat(<<WB,
      Alt(<<Cat(<<Lit(<<"a","t","t","r","a","c","t","i","o","n">>),
      Opt(Lit(<<"s">>))>>),
      Lit(<<"s","i","g","h","t","s","e","e","i","n","g">>),
      Cat(<<Lit(<<"m","u","s","e","u","m">>), Opt(Lit(<<"s">>))>>),
      Cat(<<Lit(<<"t","e","m","p","l","e">>), Opt(Lit(<<"s">>))>>),
      Lit(<<"c","h","u","r","c","h">>), Lit(<<"m","o","s","q","u","e">>),
      Cat(<<Lit(<<"m","o","n","u","m","e","n","t">>), Opt(Lit(<<"s">>))>>),
      Cat(<<Lit(<<"l","a","n","d","m","a","r","k">>), Opt(Lit(<<"s">>))>>),
      Cat(<<Lit(<<"p","a","r","k">>), Opt(Lit(<<"s">>))>>),
      Cat(<<Lit(<<"g","a","r","d","e","n">>), Opt(Lit(<<"s">>))>>),
      Lit(<<"z","o","o">>), Lit(<<"a","q","u","a","r","i","u","m">>),
      Lit(<<"p","a","l","a","c","e">>), Lit(<<"f","o","r","t">>),
      Lit(<<"c","a","s","t","l","e">>),
      Lit(<<"g","a","l","l","e","r","y">>),
      Lit(<<"g","a","l","l","e","r","i","e","s">>)>>), WB>>),
    \* /\b(nightlife|clubs?|disco|lounge|pubs?|bars?|brewery|breweries|rooftop)\b/
    Cat(<<WB, Alt(<<Lit(<<"n","i","g","h","t","l","i","f","e">>),
      Cat(<<Lit(<<"c","l","u","b">>), Opt(Lit(<<"s">>))>>),
      Lit(<<"d","i","s","c","o">>), Lit(<<"l","o","u","n","g","e">>),
      Cat(<<Lit(<<"p","u","b">>), Opt(Lit(<<"s">>))>>),
      Cat(<<Lit(<<"b","a","r">>), Opt(Lit(<<"s">>))>>),
      Lit(<<"b","r","e","w","e","r","y">>),
      Lit(<<"b","r","e","w","e","r","i","e","s">>),
      Lit(<<"r","o","o","f","t","o","p">>)>>), WB>>),
    \* /\b(places?\s+to\s+(visit|go|see|eat|stay|shop|explore))\b/
    Cat(<<WB, Cat(<<Lit(<<"p","l","a","c","e">>), Opt(Lit(<<"s">>)), WS1,
      Lit(<<"t","o">>), WS1, Alt(<<Lit(<<"v","i","s","i","t">>),
      Lit(<<"g","o">>), Lit(<<"s","e","e">>), Lit(<<"e","a","t">>),
      Lit(<<"s","t","a","y">>), Lit(<<"s","h","o","p">>),
      Lit(<<"e","x","p","l","o","r","e">>)>>)>>), WB>>),
    \* /\b(things?\s+to\s+do)\b/
    Cat(<<WB, Cat(<<Lit(<<"t","h","i","n","g">>), Opt(Lit(<<"s">>)), WS1,
      Lit(<<"t","o">>), WS1, Lit(<<"d","o">>)>>), WB>>),
    \* /\b(where\s+to\s+(eat|stay|shop|visit|go|drink))\b/
    Cat(<<WB, Cat(<<Lit(<<"w","h","e","r","e">>), WS1, Lit(<<"t","o">>),
      WS1, Alt(<<Lit(<<"e","a","t">>), Lit(<<"s","t","a","y">>),
      Lit(<<"s","h","o","p">>), Lit(<<"v","i","s","i","t">>),
      Lit(<<"g","o">>), Lit(<<"d","r","i","n","k">>)>>)>>), WB>>),
    \* /\b(what\s+to\s+(eat|see|do|visit))\b/
    Cat(<<WB, Cat(<<Lit(<<"w","h","a","t">>), WS1, Lit(<<"t","o">>), WS1,
      Alt(<<Lit(<<"e","a","t">>), Lit(<<"s","e","e">>), Lit(<<"d","o">>),
      Lit(<<"v","i","s","i","t">>)>>)>>), WB>>)
  >>

\* /\bnear\s+me\b/i
NEAR_ME_PATTERN == Cat(<<WB, Lit(<<"n","e","a","r">>), WS1, Lit(<<"m","e">>), WB>>)

\* the regular expressions of isLocateMeQuery, in source order
LOCATE_ME_PATTERNS ==
  <<
    \* /\b(locate\s+me|find\s+me|where\s+am\s+i|where\s+i\s+am|where\s+i'?m\s+at)\b/
    Cat(<<WB, Alt(<<Cat(<<Lit(<<"l","o","c","a","t","e">>), WS1,
      Lit(<<"m","e">>)>>), Cat(<<Lit(<<"f","i","n","d">>), WS1,
      Lit(<<"m","e">>)>>), Cat(<<Lit(<<"w","h","e","r","e">>), WS1,
      Lit(<<"a","m">>), WS1, Lit(<<"i">>)>>),
      Cat(<<Lit(<<"w","h","e","r","e">>), WS1, Lit(<<"i">>), WS1,
      Lit(<<"a","m">>)>>), Cat(<<Lit(<<"w","h","e","r","e">>), WS1,
      Lit(<<"i">>), Opt(Lit(<<"'">>)), Lit(<<"m">>), WS1,
      Lit(<<"a","t">>)>>)>>), WB>>),
    \* /\b(my\s+(current\s+)?location|my\s+place|my\s+position|current\s+location)\b/
    Cat(<<WB, Alt(<<Cat(<<Lit(<<"m","y">>), WS1,
      Opt(Cat(<<Lit(<<"c","u","r","r","e","n","t">>), WS1>>)),
      Lit(<<"l","o","c","a","t","i","o","n">>)>>), Cat(<<Lit(<<"m","y">>),
      WS1, Lit(<<"p","l","a","c","e">>)>>), Cat(<<Lit(<<"m","y">>), WS1,
      Lit(<<"p","o","s","i","t","i","o","n">>)>>),
      Cat(<<Lit(<<"c","u","r","r","e","n","t">>), WS1,
      Lit(<<"l","o","c","a","t","i","o","n">>)>>)>>), WB>>),
    \* /\b(show|find|detect|identify|pinpoint|tell)\b.*(my\s+location|where\s+i)/
    Cat(<<WB, Alt(<<Lit(<<"s","h","o","w">>), Lit(<<"f","i","n","d">>),
      Lit(<<"d","e","t","e","c","t">>),
      Lit(<<"i","d","e","n","t","i","f","y">>),
      Lit(<<"p","i","n","p","o","i","n","t">>),
      Lit(<<"t","e","l","l">>)>>), WB, DOTS, Alt(<<Cat(<<Lit(<<"m","y">>),
      WS1, Lit(<<"l","o","c","a","t","i","o","n">>)>>),
      Cat(<<Lit(<<"w","h","e","r","e">>), WS1, Lit(<<"i">>)>>)>>)>>),
    \* /\b(which|what)\b.*(place|city|country|location)\b.*(am\s+i|i'?m)\s+in\b/
    Cat(<<WB, Alt(<<Lit(<<"w","h","i","c","h">>),
      Lit(<<"w","h","a","t">>)>>), WB, DOTS,
      Alt(<<Lit(<<"p","l","a","c","e">>), Lit(<<"c","i","t","y">>),
      Lit(<<"c","o","u","n","t","r","y">>),
      Lit(<<"l","o","c","a","t","i","o","n">>)>>), WB, DOTS,
      Alt(<<Cat(<<Lit(<<"a","m">>), WS1, Lit(<<"i">>)>>),
      Cat(<<Lit(<<"i">>), Opt(Lit(<<"'">>)), Lit(<<"m">>)>>)>>), WS1,
      Lit(<<"i","n">>), WB>>),
    \* /\bfind\s+(out\s+)?where\s+i\b/
    Cat(<<WB, Lit(<<"f","i","n","d">>), WS1,
      Opt(Cat(<<Lit(<<"o","u","t">>), WS1>>)),
      Lit(<<"w","h","e","r","e">>), WS1, Lit(<<"i">>), WB>>),
    \* /\bwhat\s+is\s+my\s+(location|position|place)\b/
    Cat(<<WB, Lit(<<"w","h","a","t">>), WS1, Lit(<<"i","s">>), WS1,
      Lit(<<"m","y">>), WS1,
      Alt(<<Lit(<<"l","o","c","a","t","i","o","n">>),
      Lit(<<"p","o","s","i","t","i","o","n">>),
      Lit(<<"p","l","a","c","e">>)>>), WB>>),
    \* /\b(what|which)\b.*\bam\s+i\s+in\b/
    Cat(<<WB, Alt(<<Lit(<<"w","h","a","t">>),
      Lit(<<"w","h","i","c","h">>)>>), WB, DOTS, WB, Lit(<<"a","m">>), WS1,
      Lit(<<"i">>), WS1, Lit(<<"i","n">>), WB>>)
  >>

\* ------------------------------------------------------------------------
\* App.jsx: text normalisation, classification, static detection
\* ------------------------------------------------------------------------

\* JavaScript undefined and null where a string is expected: one-element
\* sequences that no string of characters equals
JSUndefined == <<"undefined">>
JSNull == <<"null">>

\* a value that is falsy when used as a condition (undefined, null, '')
Falsy(v) == v = JSUndefined \/ v = JSNull \/ v = <<>>

\* CONTINENTS, in the insertion order Object.entries walks
CONTINENTS ==
  <<
    [name |-> <<"a","f","r","i","c","a">>,
     lat |-> 2, lng |-> 21, alt |-> 8000000],
    [name |-> <<"e","u","r","o","p","e">>,
     lat |-> 50, lng |-> 10, alt |-> 5000000],
    [name |-> <<"a","s","i","a">>,
     lat |-> 35, lng |-> 90, alt |-> 8000000],
    [name |-> <<"n","o","r","t","h"," ","a","m","e","r","i","c","a">>,
     lat |-> 40, lng |-> -100, alt |-> 8000000],
    [name |-> <<"s","o","u","t","h"," ","a","m","e","r","i","c","a">>,
     lat |-> -15, lng |-> -60, alt |-> 8000000],
    [name |-> <<"o","c","e","a","n","i","a">>,
     lat |-> -25, lng |-> 135, alt |-> 8000000],
    [name |-> <<"a","u","s","t","r","a","l","i","a">>,
     lat |-> -25, lng |-> 135, alt |-> 5000000],
    [name |-> <<"a","n","t","a","r","c","t","i","c","a">>,
     lat |-> -82, lng |-> 0, alt |-> 8000000],
    [name |-> <<"m","i","d","d","l","e"," ","e","a","s","t">>,
     lat |-> 28, lng |-> 45, alt |-> 5000000],
    [name |-> <<"s","o","u","t","h","e","a","s","t"," ","a","s","i","a">>,
     lat |-> 5, lng |-> 110, alt |-> 5000000]
  >>

\* the prefixes array of extractPlace
prefixes ==
  <<
    <<"l","e","t","'","s"," ","g","o"," ","t","o"," ">>,
    <<"l","e","t","s"," ","g","o"," ","t","o"," ">>,
    <<"g","o"," ","t","o"," ">>,
    <<"f","l","y"," ","t","o"," ">>,
    <<"t","a","k","e"," ","m","e"," ","t","o"," ">>,
    <<"s","h","o","w"," ","m","e"," ">>,
    <<"s","h","o","w"," ">>,
    <<"w","h","e","r","e"," ","i","s"," ">>,
    <<"t","e","l","l"," ","m","e"," ","a","b","o","u","t"," ">>,
    <<"a","b","o","u","t"," ">>,
    <<"i"," ","w","a","n","t"," ","t","o"," ","v","i","s","i","t"," ">>,
    <<"v","i","s","i","t"," ">>,
    <<"e","x","p","l","o","r","e"," ">>
  >>

\* extractPlace that keeps stripping while a listed prefix matches
RECURSIVE extractPlace_Recursive(_)
extractPlace_Recursive(input) ==
  LET lower == trim(toLowerCase(input))
      hits  == {k \in DOMAIN prefixes : startsWith(lower, prefixes[k])}
  IN  IF hits = {} THEN lower
      ELSE LET k == CHOOSE h \in hits : \A g \in hits : h <= g
           IN  extractPlace_Recursive(trim(sliceFrom(lower, Len(prefixes[k]))))

\* extractPlace: lower-case, trim, strip the first listed prefix that matches
extractPlace(input) ==
  LET lower == trim(toLowerCase(input))
      hits  == {k \in DOMAIN prefixes : startsWith(lower, prefixes[k])}
  IN  IF hits = {} THEN lower
      ELSE LET k == CHOOSE h \in hits : \A g \in hits : h <= g
           IN  trim(sliceFrom(lower, Len(prefixes[k])))

NON_PLACE_WORDS ==
  {
    <<"h","i">>, <<"h","e","l","l","o">>, <<"h","e","y">>, <<"y","o">>,
    <<"s","u","p">>, <<"o","k">>, <<"y","e","s">>, <<"n","o">>,
    <<"t","h","a","n","k","s">>, <<"t","h","a","n","k">>, <<"b","y","e">>,
    <<"h","e","l","p">>, <<"p","l","e","a","s","e">>, <<"t","e","s","t">>,
    <<"l","o","l">>, <<"w","o","w">>, <<"c","o","o","l">>,
    <<"n","i","c","e">>, <<"g","o","o","d">>, <<"b","a","d">>,
    <<"w","h","a","t">>, <<"h","o","w">>, <<"w","h","y">>, <<"w","h","o">>,
    <<"w","h","e","n">>, <<"w","h","e","r","e">>, <<"t","h","e">>,
    <<"h","o","l","a">>, <<"c","i","a","o">>
  }

Vowels == {"a","e","i","o","u","y"}

\* text.toLowerCase().replace(/[^a-z]/g, '')
RECURSIVE onlyLetters(_)
onlyLetters(s) ==
  IF s = <<>> THEN <<>>
  ELSE IF Head(s) \in LowerLetters THEN <<Head(s)>> \o onlyLetters(Tail(s))
  ELSE onlyLetters(Tail(s))

\* looksLikeGibberish
looksLikeGibberish(text) ==
  LET clean == onlyLetters(toLowerCase(text))
  IN  \/ Len(clean) < 3
      \/ clean \in NON_PLACE_WORDS
      \/ ~(\E i \in 1..Len(clean) : clean[i] \in Vowels)               \* !/[aeiouy]/
      \/ \E i \in 1..(Len(clean) - 5) :                                 \* /[^aeiouy]{6,}/
           \A k \in i..(i + 5) : clean[k] \notin Vowels

\* isLocateMeQuery: any of its regular expressions matches the lower-cased input
isLocateMeQuery(input) ==
  LET lower == toLowerCase(input)
  IN  \E k \in DOMAIN LOCATE_ME_PATTERNS : test(LOCATE_ME_PATTERNS[k], lower)

\* NEAR_ME_PATTERN without its i flag
isNearMeQuery_CaseSensitive(input) == test(NEAR_ME_PATTERN, input)

\* NEAR_ME_PATTERN.test(interests)
isNearMeQuery(input) == test(NEAR_ME_PATTERN, toLowerCase(input))

\* isAgentQuery with PLACES_PATTERNS only
isAgentQuery_PlacesOnly(input) ==
  LET trimmed == toLowerCase(trim(input))
  IN  \E k \in DOMAIN PLACES_PATTERNS : test(PLACES_PATTERNS[k], trimmed)

\* isAgentQuery
isAgentQuery(input) ==
  LET trimmed == toLowerCase(trim(input))
  IN  \/ \E k \in DOMAIN AGENT_PATTERNS : test(AGENT_PATTERNS[k], trimmed)
      \/ \E k \in DOMAIN PLACES_PATTERNS : test(PLACES_PATTERNS[k], trimmed)

NoLocation == [type |-> "none"]

\* the loop of detectLocation over the countries: the first country, in list
\* order, whose name equals the place, is contained in it, or starts with it
countryMatches(place, c) ==
  LET name == toLowerCase(c.name)
  IN  \/ place = name
      \/ includes(place, name)
      \/ (Len(place) >= 3 /\ startsWith(name, place))

\* detectLocation with the two checks in the other order
detectLocation_CountriesFirst(input, countryList) ==
  LET place == extractPlace(input)
      contHits == {k \in DOMAIN CONTINENTS :
                     place = CONTINENTS[k].name \/ includes(place, CONTINENTS[k].name)}
      ctryHits == {k \in DOMAIN countryList : countryMatches(place, countryList[k])}
  IN  IF place = <<>> THEN NoLocation
      ELSE IF ctryHits # {} THEN
        LET k == CHOOSE h \in ctryHits : \A g \in ctryHits : h <= g
        IN  [type |-> "country", country |-> countryList[k]]
      ELSE IF contHits # {} THEN
        LET k == CHOOSE h \in contHits : \A g \in contHits : h <= g
        IN  [type |-> "continent", name |-> CONTINENTS[k].name,
             lat |-> CONTINENTS[k].lat, lng |-> CONTINENTS[k].lng, alt |-> CONTINENTS[k].alt]
      ELSE NoLocation

\* detectLocation
detectLocation(input, countryList) ==
  LET place == extractPlace(input)
      contHits == {k \in DOMAIN CONTINENTS :
                     place = CONTINENTS[k].name \/ includes(place, CONTINENTS[k].name)}
      ctryHits == {k \in DOMAIN countryList : countryMatches(place, countryList[k])}
  IN  IF place = <<>> THEN NoLocation
      ELSE IF contHits # {} THEN
        LET k == CHOOSE h \in contHits : \A g \in contHits : h <= g
        IN  [type |-> "continent", name |-> CONTINENTS[k].name,
             lat |-> CONTINENTS[k].lat, lng |-> CONTINENTS[k].lng, alt |-> CONTINENTS[k].alt]
      ELSE IF ctryHits # {} THEN
        LET k == CHOOSE h \in ctryHits : \A g \in ctryHits : h <= g
        IN  [type |-> "country", country |-> countryList[k]]
      ELSE NoLocation

\* ------------------------------------------------------------------------
\* Bounds and sample data
\* ------------------------------------------------------------------------

\* the open-tab list is explored up to this length
MaxTabs == 3
\* handleExplore / handleImageExplore / handleCountryClick calls in a run
MaxRequests == 2
\* requests that may be awaiting a remote or device call at the same time
MaxInFlight == 2

\* a gazetteer entry as the tab session sees it: the fields of a country
\* object that the code reads, plus the optional _placeName, _initialMessage
\* and _chatOnly that App.jsx adds
Country(name, code, lat, lng) ==
  [name |-> name, code |-> code, lat |-> lat, lng |-> lng,
   _placeName |-> JSUndefined, _initialMessage |-> JSUndefined, _chatOnly |-> FALSE]

\* the countries state once getCountries() has loaded it (sample gazetteer;
\* Australia is also a continent name)
countries ==
  <<
    Country(<<"J","a","p","a","n">>, <<"J","P">>, 36, 138),
    Country(<<"A","u","s","t","r","a","l","i","a">>, <<"A","U">>, -25, 133),
    Country(<<"F","r","a","n","c","e">>, <<"F","R">>, 46, 2),
    Country(<<"T","h","a","i","l","a","n","d">>, <<"T","H">>, 15, 101)
  >>

\* ------------------------------------------------------------------------
\* useGlobe: the tab session
\* ------------------------------------------------------------------------

Digit(n) == CASE n = 0 -> "0" [] n = 1 -> "1" [] n = 2 -> "2" [] n = 3 -> "3"
              [] n = 4 -> "4" [] n = 5 -> "5" [] n = 6 -> "6" [] n = 7 -> "7"
              [] n = 8 -> "8" [] n = 9 -> "9"

\* String(n) for a natural number
RECURSIVE NumberToString(_)
NumberToString(n) ==
  IF n < 10 THEN <<Digit(n)>> ELSE NumberToString(n \div 10) \o <<Digit(n % 10)>>

\* score = null (the default of addTab); scores are 0..10
NullScore == -1

\* `${country.code || country.name}_${Date.now()}`
NewTabId(country, clock) ==
  (IF Falsy(country.code) THEN country.name ELSE country.code)
    \o <<"_">> \o NumberToString(clock)

\* openTabsRef.current.find(t => t.country.code === country.code &&
\*                               t.country._placeName === country._placeName)
FindExisting(tabs, country) ==
  {k \in DOMAIN tabs : /\ tabs[k].country.code = country.code
                        /\ tabs[k].country._placeName = country._placeName}

\* addTab without the lookup: every call appends a tab
addTab_NoLookup(tabs, country, score, insight, clock) ==
  LET id == NewTabId(country, clock)
      newTab == [id |-> id, country |-> country, score |-> score, insight |-> insight]
  IN  [tabs |-> Append(tabs, newTab), active |-> id, id |-> id]

\* addTab: the list and active id afterwards, and the id returned
addTab(tabs, country, score, insight, clock) ==
  LET existing == FindExisting(tabs, country)
  IN  IF existing # {} THEN
        LET k == CHOOSE h \in existing : \A g \in existing : h <= g
        IN  [tabs |-> tabs, active |-> tabs[k].id, id |-> tabs[k].id]
      ELSE
        LET id == NewTabId(country, clock)
            newTab == [id |-> id, country |-> country, score |-> score, insight |-> insight]
        IN  [tabs |-> Append(tabs, newTab), active |-> id, id |-> id]

\* openTabsRef.current.filter(t => t.id !== tabId)
RECURSIVE WithoutTab(_, _)
WithoutTab(tabs, tabId) ==
  IF tabs = <<>> THEN <<>>
  ELSE IF Head(tabs).id = tabId THEN WithoutTab(Tail(tabs), tabId)
  ELSE <<Head(tabs)>> \o WithoutTab(Tail(tabs), tabId)

\* removeTab that never touches the active id
removeTab_KeepActive(tabs, active, tabId) ==
  [tabs |-> WithoutTab(tabs, tabId), active |-> active]

\* removeTab that activates the first remaining tab
removeTab_First(tabs, active, tabId) ==
  LET next == WithoutTab(tabs, tabId)
  IN  [tabs |-> next,
       active |-> IF active = tabId /\ Len(next) > 0 THEN next[1].id
                  ELSE IF Len(next) = 0 THEN JSNull
                  ELSE active]

\* removeTab: the list and active id afterwards
removeTab(tabs, active, tabId) ==
  LET next == WithoutTab(tabs, tabId)
  IN  [tabs |-> next,
       active |-> IF active = tabId /\ Len(next) > 0 THEN next[Len(next)].id
                  ELSE IF Len(next) = 0 THEN JSNull
                  ELSE active]

\* ------------------------------------------------------------------------
\* State
\* ------------------------------------------------------------------------

VARIABLES
  openTabs,        \* useGlobe: openTabsRef.current / openTabs, a list of tabs
  activeTabId,     \* useGlobe: the active tab id, or JSNull
  loading,         \* useGlobe: the loading flag
  error,           \* useGlobe: the error message, or NoError
  recommendations, \* useGlobe: the rankings last received, or <<>> for null
  camera,          \* Globe: the destination of the last flyTo
  photoEntities,   \* Globe: photoEntitiesRef, a bag of entities, each with the key
                   \* it is stored under (and the tab it was pinned for)
  photoJobs,       \* photo lookups and image loads in flight (a bag)
  placePins,       \* App: activePlaces is set and the place pins are on the globe
  searchHistory,   \* useSearchHistory: the history list
  storedHistory,   \* localStorage: the item atlasiq_search_history, or JSNull
  panel,           \* CountryPanel: the chat maps, flags, refs and pending timer
  geoCache,        \* useGeolocation: cacheRef.current
  reqs,            \* the handleExplore / handleImageExplore / handleCountryClick
                   \* calls that are suspended at an await, by slot
  started,         \* how many such calls have been made
  now,             \* Date.now()
  last             \* bookkeeping: the step taken last, its argument and outcome

vars == <<openTabs, activeTabId, loading, error, recommendations, camera,
          photoEntities, photoJobs, placePins, searchHistory, storedHistory, panel, geoCache, reqs,
          started, now, last>>

\* error === null
NoError == "null"

\* flyTo(lat, lng, altitude = 2500000)
DefaultAltitude == 2500000
\* the altitude handleExplore passes for the top recommendation
RecommendationAltitude == 3000000

\* the camera before any flyTo
HomeCamera == [lat |-> 0, lng |-> 0, alt |-> 0]

\* const markerKey = tabId || '_default'
DefaultMarkerKey == <<"_","d","e","f","a","u","l","t">>

\* a slot with no call suspended in it; otherwise pc names the awaited call
\* and the other fields are the locals the rest of the handler reads
IdleReq == [pc |-> "idle", interests |-> <<>>, arg |-> <<>>, agentQuery |-> FALSE,
            cached |-> FALSE,
            lat |-> 0, lng |-> 0, placeName |-> JSNull, country |-> 0]

Slots == 1..MaxInFlight

\* flyTo that ignores the altitude it is given
flyTo_DefaultOnly(lat, lng, altitude) == [lat |-> lat, lng |-> lng, alt |-> DefaultAltitude]

\* globeRef.current.flyTo
flyTo(lat, lng, altitude) == [lat |-> lat, lng |-> lng, alt |-> altitude]

\* pinPhotoOnGlobe(lat, lng, placeName, countryName, tabId): starts
\* getPlacePhoto(placeName || countryName) unless there is no name. The job
\* keeps what decides the rest: the tabId argument (JSUndefined when the
\* caller passes none) and whether the country-name fallback applies.
\* forTab is bookkeeping with no counterpart in the source: the id of the tab
\* the caller has just opened or activated, so that a marker can be traced
\* to its tab whatever key it is stored under.
pinPhotoOnGlobe(jobs, placeName, countryName, tabId, forTab) ==
  LET searchName == IF Falsy(placeName) THEN countryName ELSE placeName
      job == [stage |-> "photo", tabId |-> tabId, forTab |-> forTab,
              fallback |-> (placeName # countryName /\ ~Falsy(countryName))]
  IN  IF Falsy(searchName) THEN jobs ELSE jobs (+) SetToBag({job})

\* countries.find(c => c.code === resolved.code ||
\*                     c.name.toLowerCase() === resolved.name.toLowerCase())
FindDatasetCountry(resolved) ==
  {k \in DOMAIN countries :
     \/ countries[k].code = resolved.code
     \/ toLowerCase(countries[k].name) = toLowerCase(resolved.name)}

\* navigateToResolved(resolved, initialMessage) applied to
\* st = [tabs, active, camera, jobs]
navigateToResolved(st, resolved, initialMessage, clock) ==
  LET found == FindDatasetCountry(resolved)
      withMsg == IF Falsy(initialMessage) THEN JSUndefined ELSE initialMessage
  IN  IF found # {} THEN
        LET k == CHOOSE h \in found : \A g \in found : h <= g
            datasetCountry == countries[k]
            flyLat == IF resolved.lat # 0 THEN resolved.lat ELSE datasetCountry.lat
            flyLng == IF resolved.lng # 0 THEN resolved.lng ELSE datasetCountry.lng
            countryWithPlace == [datasetCountry EXCEPT !._placeName = resolved.place_name,
                                                       !._initialMessage = withMsg]
            a == addTab(st.tabs, countryWithPlace, NullScore, JSNull, clock)
        IN  [tabs |-> a.tabs, active |-> a.active,
             camera |-> flyTo(flyLat, flyLng, DefaultAltitude),
             jobs |-> pinPhotoOnGlobe(st.jobs, resolved.place_name, resolved.name, a.id, a.id)]
      ELSE
        LET chatOnlyCountry == [name |-> resolved.name, code |-> resolved.code,
                                lat |-> resolved.lat, lng |-> resolved.lng,
                                _placeName |-> resolved.place_name,
                                _initialMessage |-> withMsg, _chatOnly |-> TRUE]
            a == addTab(st.tabs, chatOnlyCountry, NullScore, JSNull, clock)
        IN  IF resolved.lat # 0 /\ resolved.lng # 0 THEN
              [tabs |-> a.tabs, active |-> a.active,
               camera |-> flyTo(resolved.lat, resolved.lng, DefaultAltitude),
               jobs |-> pinPhotoOnGlobe(st.jobs, resolved.place_name, resolved.name, a.id, a.id)]
            ELSE
              [tabs |-> a.tabs, active |-> a.active, camera |-> st.camera, jobs |-> st.jobs]

\* _openAgentTab(query): the synthetic chat-only tab
AgentCountry(query, clock) ==
  [name |-> <<"A","t","l","a","s","I","Q"," ","A","g","e","n","t">>,
   code |-> <<"_","a","g","e","n","t","_">> \o NumberToString(clock),
   lat |-> 0, lng |-> 0,
   _placeName |-> IF Len(query) > 30 THEN sliceTo(query, 30) \o <<".", ".", ".">> ELSE query,
   _initialMessage |-> query, _chatOnly |-> TRUE]

\* MAX_ITEMS of useSearchHistory
MAX_ITEMS == 10

\* addSearch that compares the terms as they are written
addSearch_CaseSensitive(history, term) ==
  LET filtered == SelectSeq(history, LAMBDA h : h # term)
      next == <<term>> \o filtered
  IN  SubSeq(next, 1, IF Len(next) < MAX_ITEMS THEN Len(next) ELSE MAX_ITEMS)

\* addSearch(term)
addSearch(history, term) ==
  LET filtered == SelectSeq(history, LAMBDA h : toLowerCase(h) # toLowerCase(term))
      next == <<term>> \o filtered
  IN  SubSeq(next, 1, IF Len(next) < MAX_ITEMS THEN Len(next) ELSE MAX_ITEMS)

\* CACHE_TTL of useGeolocation, in milliseconds
CACHE_TTL == 300000

\* cacheRef.current before any fix: { lat: null, lng: null, ts: 0 }
EmptyGeoCache == [set |-> FALSE, lat |-> 0, lng |-> 0, ts |-> 0]

\* a fix that is exactly CACHE_TTL old still counts as fresh
GeoCacheFresh_Inclusive == geoCache.set /\ now - geoCache.ts <= CACHE_TTL

\* requestLocation answers from the cache
GeoCacheFresh == geoCache.set /\ now - geoCache.ts < CACHE_TTL

\* ------------------------------------------------------------------------
\* Inputs and the answers of the remote and device collaborators
\* ------------------------------------------------------------------------

\* "japan": plain, gazetteer country
Q_japan == <<"j","a","p","a","n">>
\* "asia": plain, continent
Q_asia == <<"a","s","i","a">>
\* "Australia": plain, continent name that is also a country name
Q_australia == <<"A","u","s","t","r","a","l","i","a">>
\* "weather in japan": agent query with a gazetteer country
Q_weather_japan == <<"w","e","a","t","h","e","r"," ","i","n"," ","j","a","p","a","n">>
\* "weather in asia": agent query with a continent
Q_weather_asia == <<"w","e","a","t","h","e","r"," ","i","n"," ","a","s","i","a">>
\* "Eiffel Tower": plain, no static hit, not gibberish
Q_eiffel == <<"E","i","f","f","e","l"," ","T","o","w","e","r">>
\* "hello": plain, no static hit, gibberish (a non-place word)
Q_gibberish == <<"h","e","l","l","o">>
\* "bcdfgh near me": near-me query whose fragment is gibberish
Q_gibberish_near_me == <<"b","c","d","f","g","h"," ","n","e","a","r"," ","m","e">>
\* "find me": locate-me query
Q_find_me == <<"f","i","n","d"," ","m","e">>
\* "why?": agent query, no static hit, gibberish fragment
Q_question == <<"w","h","y","?">>

\* "compare Japan and Thailand": agent query naming two gazetteer countries
Q_compare == <<"c","o","m","p","a","r","e"," ","J","a","p","a","n"," ","a","n","d"," ","T","h","a","i","l","a","n","d">>
\* "Find me cafes in Japan NEAR ME": near-me in capitals, and also a
\* locate-me phrase, an agent topic and a gazetteer country
Q_cafes_near_me == <<"F","i","n","d"," ","m","e"," ","c","a","f","e","s"," ","i","n"," ","J","a","p","a","n"," ","N","E","A","R"," ","M","E">>
\* "hotels near mexico": the letters of "near me" without the word "me"
Q_near_mexico == <<"h","o","t","e","l","s"," ","n","e","a","r"," ","m","e","x","i","c","o">>

Inputs ==
  {Q_japan, Q_asia, Q_australia, Q_weather_japan, Q_weather_asia, Q_eiffel,
   Q_gibberish, Q_gibberish_near_me, Q_find_me, Q_question, Q_compare,
   Q_cafes_near_me, Q_near_mexico}

\* what handleExplore computes from its argument before anything else
Classify(interests) ==
  [nearMe     |-> isNearMeQuery(interests),
   locateMe   |-> isLocateMeQuery(interests),
   agentQuery |-> isAgentQuery(interests),
   location   |-> detectLocation(interests, countries),
   place      |-> extractPlace(interests),
   gibberish  |-> looksLikeGibberish(extractPlace(interests))]

\* Classify, tabulated once per input
InputInfo == [i \in Inputs |-> Classify(i)]

\* answers of POST /resolve-place and /resolve-place-image that carry a name
ResolvedPlaces ==
  { \* a place inside a gazetteer country
    [name |-> <<"F","r","a","n","c","e">>, code |-> <<"F","R">>, place_name |-> <<"P","a","r","i","s">>,
     lat |-> 48, lng |-> 2],
    \* a gazetteer country, no place name and no coordinates
    [name |-> <<"J","a","p","a","n">>, code |-> <<"J","P">>, place_name |-> JSNull,
     lat |-> 0, lng |-> 0],
    \* a location outside the gazetteer, no country code
    [name |-> <<"A","t","l","a","n","t","i","s">>, code |-> <<>>, place_name |-> <<"A","t","l","a","n","t","i","s">>,
     lat |-> 10, lng |-> 20] }

\* how a remote call settles: with data, with no usable data, rejected with
\* HTTP 401, rejected otherwise
CallOutcomes == {"ok", "empty", "401", "error"}

\* rankings of POST /recommendations: the top entry only (code, score, insight)
Rankings ==
  { <<[code |-> <<"J","P">>, score |-> 9, insight |-> <<"s","a","f","e">>]>>,
    <<[code |-> <<"X","X">>, score |-> 7, insight |-> <<"f","a","r">>]>> }

\* the position the device reports
DevicePosition == [lat |-> 48, lng |-> 2]

\* what reverseGeocode resolves with: a place name or null
ReverseGeocodeAnswers == {<<"P","a","r","i","s">>, JSNull}

\* the point of a globe click, as offsets from the country's own coordinates
\* (0: the click carried no coordinates, clickLat || country.lat)
ClickOffsets == {0, 1}

ApiKeyError == "API key is invalid or expired. Please update your OpenRouter API key."
GibberishError == "That doesn't look like a real place. Try a city, country, or landmark name."
RecommendationsError == "Failed to get recommendations. Check your API key and try again."
NoPlacesError == "No places found near your location. Try a different search."
ImageUnknownError == "Could not identify a place in this image"
ImageFailedError == "Failed to analyze the image. Please try again."
\* err.message of an axios call rejected without HTTP 401, and with it
RequestFailedError == "Network Error"
UnauthorizedError == "Request failed with status code 401"
\* err.message of a rejected call, by outcome
RejectionMessage(o) == IF o = "401" THEN UnauthorizedError ELSE RequestFailedError
\* err.message of a rejected requestLocation()
GeolocationErrors ==
  {"Location access denied. Please enable location permissions.",
   "Could not determine your location. Please try again.",
   "Location request timed out. Please try again.",
   "Geolocation is not supported by your browser"}

\* ------------------------------------------------------------------------
\* Initial state
\* ------------------------------------------------------------------------

\* new Map()
EmptyMap == [t \in {} |-> <<>>]

\* map.get(key) || []
MapGet(map, key) == IF key \in DOMAIN map THEN map[key] ELSE <<>>

\* new Map(map).set(key, value)
MapSet(map, key, value) ==
  [x \in DOMAIN map \cup {key} |-> IF x = key THEN value ELSE map[x]]

\* CountryPanel as mounted: empty chat map, chatLoading false, nothing in
\* sentInitialRef, no timer, no chat request in flight. seen holds the
\* dependency values of the last effect run (tabs for the clean-up effect,
\* send for the auto-send effect), sends counts the user's messages.
InitPanel ==
  [chatMap |-> EmptyMap, chatLoading |-> FALSE, sentInitial |-> {}, timer |-> {},
   chats |-> {}, sends |-> 0,
   seen |-> [tabs |-> <<>>,
             send |-> [active |-> JSNull, country |-> {}, chatLoading |-> FALSE,
                       chatMap |-> EmptyMap]]]

Step(op, arg, outcome) == [op |-> op, arg |-> arg, outcome |-> outcome]

Init ==
  /\ openTabs = <<>>
  /\ activeTabId = JSNull
  /\ loading = FALSE
  /\ error = NoError
  /\ recommendations = <<>>
  /\ camera = HomeCamera
  /\ photoEntities = EmptyBag
  /\ photoJobs = EmptyBag
  /\ placePins = FALSE
  /\ searchHistory = <<>>
  /\ storedHistory = JSNull
  /\ panel = InitPanel
  /\ geoCache = EmptyGeoCache
  /\ reqs = [r \in Slots |-> IdleReq]
  /\ started = 0
  /\ now = 0
  /\ last = Step("Init", <<>>, "")

\* the slot a new call is suspended in: the lowest idle one
FreeSlots == {r \in Slots : reqs[r].pc = "idle"}
NextSlot == CHOOSE r \in FreeSlots : \A q \in FreeSlots : r <= q
CanStart == started < MaxRequests /\ FreeSlots # {}

\* ------------------------------------------------------------------------
\* App.jsx: handleExplore up to its first await
\* ------------------------------------------------------------------------

\* the nearby search is started at once, without a position
AwaitLocation_NoWait(pcName, interests) ==
  [IdleReq EXCEPT !.pc = "near_search", !.interests = interests]

\* requestLocation(): answered from cacheRef when the fix is fresh, else the
\* device is asked; the request record remembers which
AwaitLocation(pcName, interests) ==
  [IdleReq EXCEPT !.pc = pcName, !.interests = interests,
                  !.cached = GeoCacheFresh,
                  !.lat = geoCache.lat, !.lng = geoCache.lng]

\* the static country hit of handleExplore (lines 342-356): the agent branch
\* passes no tabId to pinPhotoOnGlobe, the plain branch passes the id
\* addTab returned
StaticCountryHit(interests, country, agentQuery) ==
  LET a == IF agentQuery
           THEN addTab(openTabs, [country EXCEPT !._initialMessage = interests],
                       NullScore, JSNull, now)
           ELSE addTab(openTabs, country, NullScore, JSNull, now)
  IN  /\ openTabs' = a.tabs
      /\ activeTabId' = a.active
      /\ camera' = flyTo(country.lat, country.lng, DefaultAltitude)
      /\ photoJobs' = pinPhotoOnGlobe(photoJobs, JSNull, country.name,
                                      IF agentQuery THEN JSUndefined ELSE a.id, a.id)
      /\ error' = NoError
      /\ UNCHANGED <<loading, reqs>>

\* the gibberish branch without its error message
RejectGibberish_Silent ==
  /\ error' = NoError
  /\ loading' = FALSE
  /\ UNCHANGED <<openTabs, activeTabId, camera, photoJobs, reqs>>

\* non-agent gibberish (lines 402-406): the validation error, nothing else
RejectGibberish ==
  /\ error' = GibberishError
  /\ loading' = FALSE
  /\ UNCHANGED <<openTabs, activeTabId, camera, photoJobs, reqs>>

\* the resolver is always given the sentence
ResolverArgument_Sentence(interests, c) == interests

\* resolvePlace(agentQuery ? interests : place)
ResolverArgument(interests, c) == IF c.agentQuery THEN interests ELSE c.place

\* App.handleExplore after the classification c of the submitted text
handleExploreBranches(interests, c) ==
  LET r == NextSlot
  IN  /\ searchHistory' = addSearch(searchHistory, interests)
      /\ storedHistory' = addSearch(searchHistory, interests)
      /\ started' = started + 1
      /\ UNCHANGED <<recommendations, photoEntities, placePins, panel, geoCache, now>>
      /\ last' = Step("handleExplore", interests,
                       IF c.nearMe THEN "nearMe"
                       ELSE IF c.locateMe THEN "locateMe"
                       ELSE IF c.location.type # "none" THEN c.location.type
                       ELSE IF ~c.gibberish \/ c.agentQuery THEN "resolve"
                       ELSE "gibberish")
      /\ IF c.nearMe THEN
           /\ loading' = TRUE
           /\ error' = NoError
           /\ reqs' = [reqs EXCEPT ![r] = AwaitLocation("near_geo", interests)]
           /\ UNCHANGED <<openTabs, activeTabId, camera, photoJobs>>
         ELSE IF c.locateMe THEN
           /\ loading' = TRUE
           /\ error' = NoError
           /\ reqs' = [reqs EXCEPT ![r] = AwaitLocation("locate_geo", interests)]
           /\ UNCHANGED <<openTabs, activeTabId, camera, photoJobs>>
         ELSE IF c.location.type = "country" THEN
           StaticCountryHit(interests, c.location.country, c.agentQuery)
         ELSE IF c.location.type = "continent" THEN
           /\ camera' = flyTo(c.location.lat, c.location.lng, c.location.alt)
           /\ error' = NoError
           /\ UNCHANGED <<openTabs, activeTabId, photoJobs, loading, reqs>>
         ELSE IF ~c.gibberish \/ c.agentQuery THEN
           /\ loading' = TRUE
           /\ error' = NoError
           /\ reqs' = [reqs EXCEPT ![r] =
                         [IdleReq EXCEPT !.pc = "resolve", !.interests = interests,
                                         !.agentQuery = c.agentQuery,
                                         !.arg = ResolverArgument(interests, c)]]
           /\ UNCHANGED <<openTabs, activeTabId, camera, photoJobs>>
         ELSE
           RejectGibberish

\* App.handleExplore: classify the submitted text, then take its branch
handleExplore(interests) ==
  handleExploreBranches(interests, InputInfo[interests])

\* InterestInput.handleSubmit: the form submits text.trim() unless loading
SubmitQuery(interests) ==
  /\ ~loading
  /\ CanStart
  /\ handleExplore(interests)

\* InterestInput: a click on a history item calls onSubmit(term) directly
HistoryItemClick(term) ==
  /\ \E k \in DOMAIN searchHistory : searchHistory[k] = term
  /\ CanStart
  /\ handleExplore(term)

\* ------------------------------------------------------------------------
\* App.jsx: the continuations of handleExplore after each await
\* ------------------------------------------------------------------------

\* the state navigateToResolved and the handlers thread through
NavState == [tabs |-> openTabs, active |-> activeTabId, camera |-> camera, jobs |-> photoJobs]

ApplyNav(st) ==
  /\ openTabs' = st.tabs
  /\ activeTabId' = st.active
  /\ camera' = st.camera
  /\ photoJobs' = st.jobs

Finish(r) == reqs' = [reqs EXCEPT ![r] = IdleReq]

\* await requestLocation() settles, for the near-me and the locate-me branch.
\* A cached fix resolves with the cached coordinates; otherwise the device
\* answers with a position (which is written to the cache) or an error.
GeolocationSettles(r) ==
  /\ reqs[r].pc \in {"near_geo", "locate_geo"}
  /\ UNCHANGED <<openTabs, activeTabId, recommendations, photoEntities, photoJobs,
                 placePins, searchHistory, storedHistory, panel, started, now>>
  /\ \E ok \in BOOLEAN :
       /\ reqs[r].cached => ok
       /\ last' = Step("GeolocationSettles", reqs[r].interests, IF ok THEN "ok" ELSE "error")
       /\ IF ok THEN
            LET lat == IF reqs[r].cached THEN reqs[r].lat ELSE DevicePosition.lat
                lng == IF reqs[r].cached THEN reqs[r].lng ELSE DevicePosition.lng
            IN  /\ geoCache' = IF reqs[r].cached THEN geoCache
                               ELSE [set |-> TRUE, lat |-> lat, lng |-> lng, ts |-> now]
                /\ IF reqs[r].pc = "near_geo" THEN
                     /\ reqs' = [reqs EXCEPT ![r].pc = "near_search",
                                             ![r].lat = lat, ![r].lng = lng]
                     /\ UNCHANGED <<camera, loading, error>>
                   ELSE
                     /\ camera' = flyTo(lat, lng, DefaultAltitude)
                     /\ reqs' = [reqs EXCEPT ![r].pc = "locate_reverse",
                                             ![r].lat = lat, ![r].lng = lng]
                     /\ UNCHANGED <<loading, error>>
          ELSE
            /\ \E msg \in GeolocationErrors : error' = msg
            /\ loading' = FALSE
            /\ Finish(r)
            /\ UNCHANGED <<geoCache, camera>>

\* the range cap of showPlacePins' flyToBoundingSphere
PinsMaxRange == 30000

\* await searchNearbyPlaces(interests, lat, lng) settles
NearbySearchSettles(r) ==
  /\ reqs[r].pc = "near_search"
  /\ UNCHANGED <<openTabs, activeTabId, recommendations, photoEntities, photoJobs,
                 searchHistory, storedHistory, panel, geoCache, started, now>>
  /\ loading' = FALSE
  /\ Finish(r)
  /\ \E o \in CallOutcomes :
     /\ last' = Step("NearbySearchSettles", reqs[r].interests, o)
     /\ CASE o = "ok" ->
              \* flyTo(lat, lng), then showPlacePins flies on to fit the pins,
              \* which lie around the user's position
              /\ camera' = flyTo(reqs[r].lat, reqs[r].lng, PinsMaxRange)
              /\ placePins' = TRUE
              /\ UNCHANGED error
         [] o = "empty" ->
              /\ error' = NoPlacesError
              /\ UNCHANGED <<camera, placePins>>
         [] OTHER ->
              /\ error' = RejectionMessage(o)
              /\ UNCHANGED <<camera, placePins>>

\* await reverseGeocode(lat, lng) settles in the locate-me branch; it never
\* rejects (api.js _reverseGeocode catches and returns null)
LocateReverseGeocodeSettles(r) ==
  /\ reqs[r].pc = "locate_reverse"
  /\ last' = Step("LocateReverseGeocodeSettles", reqs[r].interests, "ok")
  /\ \E placeName \in ReverseGeocodeAnswers :
       reqs' = [reqs EXCEPT ![r].pc = "locate_resolve", ![r].placeName = placeName,
                            ![r].arg = IF Falsy(placeName)
                                       THEN NumberToString(reqs[r].lat) \o <<",">>
                                              \o NumberToString(reqs[r].lng)
                                       ELSE placeName]
  /\ UNCHANGED <<openTabs, activeTabId, loading, error, recommendations, camera,
                 photoEntities, photoJobs, placePins, searchHistory, storedHistory, panel, geoCache,
                 started, now>>

\* await resolvePlace(placeName || `${lat},${lng}`) settles in the locate-me branch
LocateResolveSettles(r) ==
  /\ reqs[r].pc = "locate_resolve"
  /\ UNCHANGED <<recommendations, photoEntities, placePins, searchHistory, storedHistory, panel, geoCache,
                 started, now>>
  /\ loading' = FALSE
  /\ Finish(r)
  /\ \E o \in CallOutcomes :
     /\ last' = Step("LocateResolveSettles", reqs[r].interests, o)
     /\ CASE o = "ok" ->
              \E resolved \in ResolvedPlaces :
                /\ ApplyNav(navigateToResolved(NavState, resolved, JSUndefined, now))
                /\ UNCHANGED error
         [] o = "empty" ->
              /\ error' = IF Falsy(reqs[r].placeName) THEN error ELSE NoError
              /\ UNCHANGED <<openTabs, activeTabId, camera, photoJobs>>
         [] OTHER ->
              /\ error' = RejectionMessage(o)
              /\ UNCHANGED <<openTabs, activeTabId, camera, photoJobs>>

\* the request ends where the recommendation flow should start
StartRecommendations_Skip(r) ==
  /\ loading' = FALSE
  /\ Finish(r)

\* the recommendation flow starts (line 409): `loading` is the value the
\* callback closed over when it was created, false, so setLoading(true) runs
StartRecommendations(r) ==
  /\ loading' = TRUE
  /\ reqs' = [reqs EXCEPT ![r].pc = "recs"]

\* the 401 branch of the resolver's catch without setLoading(false)
ResolveUnauthorized_StillLoading(r) ==
  /\ error' = ApiKeyError
  /\ Finish(r)
  /\ UNCHANGED <<loading, openTabs, activeTabId, camera, photoJobs>>

\* the resolver's catch on HTTP 401 (lines 383-387): the API-key error,
\* setLoading(false), return
ResolveUnauthorized(r) ==
  /\ error' = ApiKeyError
  /\ loading' = FALSE
  /\ Finish(r)
  /\ UNCHANGED <<openTabs, activeTabId, camera, photoJobs>>

\* await resolvePlace(agentQuery ? interests : place) settles
ResolvePlaceSettles(r) ==
  /\ reqs[r].pc = "resolve"
  /\ UNCHANGED <<recommendations, photoEntities, placePins, searchHistory, storedHistory, panel, geoCache,
                 started, now>>
  /\ LET interests == reqs[r].interests
         agentQuery == reqs[r].agentQuery
     IN  \E o \in CallOutcomes :
         /\ last' = Step("ResolvePlaceSettles", interests, o)
         /\ CASE o = "ok" ->
                  \E resolved \in ResolvedPlaces :
                    /\ ApplyNav(navigateToResolved(NavState, resolved,
                                  IF agentQuery THEN interests ELSE JSNull, now))
                    /\ loading' = FALSE
                    /\ Finish(r)
                    /\ UNCHANGED error
             [] o = "401" -> ResolveUnauthorized(r)
             [] OTHER ->
                  \* no name, or a failure other than 401: fall through
                  IF agentQuery THEN
                    LET a == addTab(openTabs, AgentCountry(interests, now),
                                    NullScore, JSNull, now)
                    IN  /\ openTabs' = a.tabs
                        /\ activeTabId' = a.active
                        /\ loading' = FALSE
                        /\ Finish(r)
                        /\ UNCHANGED <<camera, photoJobs, error>>
                  ELSE
                    /\ StartRecommendations(r)
                    /\ UNCHANGED <<openTabs, activeTabId, camera, photoJobs, error>>

\* await getRecommendations(interests) settles
RecommendationsSettle(r) ==
  /\ reqs[r].pc = "recs"
  /\ UNCHANGED <<photoEntities, placePins, searchHistory, storedHistory, panel, geoCache, started, now>>
  /\ loading' = FALSE
  /\ Finish(r)
  /\ \E o \in CallOutcomes :
     /\ last' = Step("RecommendationsSettle", reqs[r].interests, o)
     /\ CASE o = "ok" ->
              \E rankings \in Rankings :
                LET topCode == rankings[1].code
                    found == {k \in DOMAIN countries : countries[k].code = topCode}
                IN  /\ recommendations' = rankings
                    /\ UNCHANGED error
                    /\ IF found = {} THEN
                         UNCHANGED <<openTabs, activeTabId, camera, photoJobs>>
                       ELSE
                         LET k == CHOOSE h \in found : \A g \in found : h <= g
                             topCountry == countries[k]
                             a == addTab(openTabs, topCountry, rankings[1].score,
                                         rankings[1].insight, now)
                         IN  /\ openTabs' = a.tabs
                             /\ activeTabId' = a.active
                             /\ camera' = flyTo(topCountry.lat, topCountry.lng,
                                                RecommendationAltitude)
                             /\ photoJobs' = pinPhotoOnGlobe(photoJobs, JSNull,
                                                             topCountry.name, a.id, a.id)
         [] o = "empty" ->
              \* rankings: []
              /\ recommendations' = <<>>
              /\ UNCHANGED <<openTabs, activeTabId, camera, photoJobs, error>>
         [] o = "401" ->
              /\ error' = ApiKeyError
              /\ UNCHANGED <<openTabs, activeTabId, camera, photoJobs, recommendations>>
         [] OTHER ->
              /\ error' = RecommendationsError
              /\ UNCHANGED <<openTabs, activeTabId, camera, photoJobs, recommendations>>

\* ------------------------------------------------------------------------
\* App.jsx: image search, globe click, tab close; CountryPanel tab click
\* ------------------------------------------------------------------------

\* the text that accompanies an image: text.trim(), possibly empty
ImageMessages == {<<>>, Q_weather_japan}

\* handleImageExplore(imageDataUrl, message) up to its await; submitted by
\* InterestInput.handleSubmit, which returns early while loading
handleImageExplore(message) ==
  /\ ~loading
  /\ CanStart
  /\ started' = started + 1
  /\ last' = Step("handleImageExplore", message, "image")
  /\ error' = NoError
  /\ loading' = TRUE
  /\ reqs' = [reqs EXCEPT ![NextSlot] = [IdleReq EXCEPT !.pc = "image", !.interests = message]]
  /\ UNCHANGED <<openTabs, activeTabId, recommendations, camera, photoEntities,
                 photoJobs, placePins, searchHistory, storedHistory, panel, geoCache, now>>

\* await resolvePlaceImage(imageDataUrl) settles; every rejection, 401
\* included, is caught by the same catch
ResolveImageSettles(r) ==
  /\ reqs[r].pc = "image"
  /\ UNCHANGED <<recommendations, photoEntities, placePins, searchHistory, storedHistory, panel, geoCache,
                 started, now>>
  /\ loading' = FALSE
  /\ Finish(r)
  /\ \E o \in CallOutcomes :
     /\ last' = Step("ResolveImageSettles", reqs[r].interests, o)
     /\ CASE o = "ok" ->
              \E resolved \in ResolvedPlaces :
                /\ ApplyNav(navigateToResolved(NavState, resolved,
                              IF reqs[r].interests = <<>> THEN JSNull
                              ELSE reqs[r].interests, now))
                /\ UNCHANGED error
         [] o = "empty" ->
              /\ error' = ImageUnknownError
              /\ UNCHANGED <<openTabs, activeTabId, camera, photoJobs>>
         [] OTHER ->
              /\ error' = ImageFailedError
              /\ UNCHANGED <<openTabs, activeTabId, camera, photoJobs>>

\* handleCountryClick(country, clickLat, clickLng) up to reverseGeocode(...).then
handleCountryClick(k, offset) ==
  /\ k \in DOMAIN countries
  /\ CanStart
  /\ started' = started + 1
  /\ last' = Step("handleCountryClick", countries[k].code, "click")
  /\ reqs' = [reqs EXCEPT ![NextSlot] =
                [IdleReq EXCEPT !.pc = "click", !.country = k,
                                !.lat = countries[k].lat + offset,
                                !.lng = countries[k].lng + offset]]
  /\ UNCHANGED <<openTabs, activeTabId, loading, error, recommendations, camera,
                 photoEntities, photoJobs, placePins, searchHistory, storedHistory, panel, geoCache, now>>

\* the .then callback of handleCountryClick
ClickReverseGeocodeSettles(r) ==
  /\ reqs[r].pc = "click"
  /\ Finish(r)
  /\ last' = Step("ClickReverseGeocodeSettles", countries[reqs[r].country].code, "ok")
  /\ UNCHANGED <<loading, error, recommendations, photoEntities, placePins,
                 searchHistory, storedHistory, panel, geoCache, started, now>>
  /\ \E placeName \in ReverseGeocodeAnswers :
       LET country == countries[reqs[r].country]
           lat == reqs[r].lat
           lng == reqs[r].lng
           enriched == IF Falsy(placeName)
                       THEN [country EXCEPT !.lat = lat, !.lng = lng]
                       ELSE [country EXCEPT !._placeName = placeName, !.lat = lat, !.lng = lng]
           a == addTab(openTabs, enriched, NullScore, JSNull, now)
       IN  /\ openTabs' = a.tabs
           /\ activeTabId' = a.active
           /\ camera' = flyTo(lat, lng, DefaultAltitude)
           /\ photoJobs' = pinPhotoOnGlobe(photoJobs, placeName, country.name, a.id, a.id)

\* Globe.removePhotoMarker(tabId): every entity stored under the key goes
removePhotoMarker(entities, tabId) ==
  [e \in {x \in DOMAIN entities : x.key # tabId} |-> entities[e]]

\* the ids of the tabs CountryPanel renders
OpenTabIds == {openTabs[k].id : k \in DOMAIN openTabs}

\* handleTabClose(tabId), from a close button of CountryPanel
handleTabClose(tabId) ==
  /\ tabId \in OpenTabIds
  /\ last' = Step("handleTabClose", tabId, IF activeTabId = tabId THEN "active" ELSE "other")
  /\ LET rm == removeTab(openTabs, activeTabId, tabId)
     IN  /\ openTabs' = rm.tabs
         /\ activeTabId' = rm.active
  /\ photoEntities' = removePhotoMarker(photoEntities, tabId)
  /\ placePins' = FALSE
  /\ UNCHANGED <<loading, error, recommendations, camera, photoJobs, searchHistory, storedHistory, panel,
                 geoCache, reqs, started, now>>

\* CountryPanel: a click on a tab of the tab bar (shown when more than one
\* tab is open) calls onTabChange(tab.id), which is setActiveTabId
TabClick(tabId) ==
  /\ Len(openTabs) > 1
  /\ tabId \in OpenTabIds
  /\ last' = Step("TabClick", tabId, "")
  /\ activeTabId' = tabId
  /\ UNCHANGED <<openTabs, loading, error, recommendations, camera, photoEntities,
                 photoJobs, placePins, searchHistory, storedHistory, panel, geoCache, reqs, started, now>>

\* ------------------------------------------------------------------------
\* Photo lookups (pinPhotoOnGlobe's promise chain) and Globe.showPhotoAt
\* ------------------------------------------------------------------------

TakeJob(job) == photoJobs (-) SetToBag({job})

\* getPlacePhoto(...) settles with a photo or with null (it never rejects).
\* With a photo, showPhotoAt starts loading the image; without one the
\* country-name fallback lookup starts when it applies.
PhotoLookupSettles(job) ==
  /\ BagIn(job, photoJobs)
  /\ job.stage \in {"photo", "fallback"}
  /\ \E found \in BOOLEAN :
       /\ last' = Step("PhotoLookupSettles", job.forTab, IF found THEN "ok" ELSE "empty")
       /\ photoJobs' =
            IF found THEN
              TakeJob(job) (+) SetToBag({[job EXCEPT !.stage = "image"]})
            ELSE IF job.stage = "photo" /\ job.fallback THEN
              TakeJob(job) (+) SetToBag({[job EXCEPT !.stage = "fallback"]})
            ELSE TakeJob(job)
  /\ UNCHANGED <<openTabs, activeTabId, loading, error, recommendations, camera,
                 photoEntities, placePins, searchHistory, storedHistory, panel, geoCache, reqs, started, now>>

\* img.onload or img.onerror of showPhotoAt: either way an entity is added
\* under markerKey = tabId || '_default'
PhotoImageSettles(job) ==
  /\ BagIn(job, photoJobs)
  /\ job.stage = "image"
  /\ last' = Step("PhotoImageSettles", job.forTab, "ok")
  /\ photoJobs' = TakeJob(job)
  /\ LET markerKey == IF Falsy(job.tabId) THEN DefaultMarkerKey ELSE job.tabId
     IN  photoEntities' = photoEntities (+) SetToBag({[key |-> markerKey, forTab |-> job.forTab]})
  /\ UNCHANGED <<openTabs, activeTabId, loading, error, recommendations, camera,
                 placePins, searchHistory, storedHistory, panel, geoCache, reqs, started, now>>

\* ------------------------------------------------------------------------
\* Time, error dismissal
\* ------------------------------------------------------------------------

\* milliseconds explored inside one cache period, and cache periods explored
MaxMs == 1
MaxPeriods == 1

\* a millisecond passes
Tick ==
  /\ now % CACHE_TTL < MaxMs
  /\ now' = now + 1
  /\ last' = Step("Tick", <<>>, "")
  /\ UNCHANGED <<openTabs, activeTabId, loading, error, recommendations, camera,
                 photoEntities, photoJobs, placePins, searchHistory, storedHistory, panel, geoCache, reqs,
                 started>>

\* the cache lifetime passes
TickCacheLifetime ==
  /\ now \div CACHE_TTL < MaxPeriods
  /\ now' = now + CACHE_TTL
  /\ last' = Step("TickCacheLifetime", <<>>, "")
  /\ UNCHANGED <<openTabs, activeTabId, loading, error, recommendations, camera,
                 photoEntities, photoJobs, placePins, searchHistory, storedHistory, panel, geoCache, reqs,
                 started>>

\* the error is dismissed: the close button, or the 6 s timer of App
DismissError ==
  /\ error # NoError
  /\ error' = NoError
  /\ last' = Step("DismissError", <<>>, "")
  /\ UNCHANGED <<openTabs, activeTabId, loading, recommendations, camera,
                 photoEntities, photoJobs, placePins, searchHistory, storedHistory, panel, geoCache, reqs,
                 started, now>>

\* ------------------------------------------------------------------------
\* useSearchHistory on its own: addSearch and clearHistory, called at any
\* time, starting from a stored list
\* ------------------------------------------------------------------------

\* addSearch / clearHistory calls in a run
MaxHistoryCalls == 3

\* ten terms that differ ignoring case
OldTerms ==
  << <<"a">>, <<"b">>, <<"c">>, <<"d">>, <<"e">>,
     <<"f">>, <<"g">>, <<"h">>, <<"i">>, <<"j">> >>

\* the lists load() may return: nothing stored, an empty list, nine terms,
\* a full list
StoredLists == {JSNull, <<>>, SubSeq(OldTerms, 1, 9), OldTerms}

\* terms to add: new ones, one that is stored, stored ones in capitals
NewTerms == {<<"k">>, <<"l">>, <<"e">>, <<"A">>, <<"J">>}

\* load(): JSON.parse(localStorage.getItem(STORAGE_KEY)) || []
load(stored) == IF stored = JSNull THEN <<>> ELSE stored

\* the application as constructed over a stored history: useState(load)
InitHistory ==
  /\ openTabs = <<>>
  /\ activeTabId = JSNull
  /\ loading = FALSE
  /\ error = NoError
  /\ recommendations = <<>>
  /\ camera = HomeCamera
  /\ photoEntities = EmptyBag
  /\ photoJobs = EmptyBag
  /\ placePins = FALSE
  /\ storedHistory \in StoredLists
  /\ panel = InitPanel
  /\ searchHistory = load(storedHistory)
  /\ geoCache = EmptyGeoCache
  /\ reqs = [r \in Slots |-> IdleReq]
  /\ started = 0
  /\ now = 0
  /\ last = Step("Init", <<>>, "")

\* addSearch(term): the updater computes the next list, writes it to
\* localStorage and returns it
AddSearchCall(term) ==
  /\ started < MaxHistoryCalls
  /\ started' = started + 1
  /\ last' = Step("addSearch", term,
                  IF \E k \in DOMAIN searchHistory :
                       toLowerCase(searchHistory[k]) = toLowerCase(term)
                  THEN "moved" ELSE "new")
  /\ searchHistory' = addSearch(searchHistory, term)
  /\ storedHistory' = addSearch(searchHistory, term)
  /\ UNCHANGED <<openTabs, activeTabId, loading, error, recommendations, camera,
                 photoEntities, photoJobs, placePins, panel, geoCache, reqs, now>>

\* clearHistory(): localStorage.removeItem, setHistory([])
ClearHistoryCall ==
  /\ started < MaxHistoryCalls
  /\ started' = started + 1
  /\ last' = Step("clearHistory", <<>>, "")
  /\ storedHistory' = JSNull
  /\ searchHistory' = <<>>
  /\ UNCHANGED <<openTabs, activeTabId, loading, error, recommendations, camera,
                 photoEntities, photoJobs, placePins, panel, geoCache, reqs, now>>

NextHistory ==
  \/ \E term \in NewTerms : AddSearchCall(term)
  \/ ClearHistoryCall

SpecHistory == InitHistory /\ [][NextHistory]_vars

\* ------------------------------------------------------------------------
\* CountryPanel: the chat of the open tabs
\* ------------------------------------------------------------------------

\* messages the user sends in a run
MaxChatMessages == 1

\* what the user types or picks from the quick topics; none of them says
\* "near me", so sendMessage does not ask for the position
ChatMessages == {<<"S","a","f","e","t","y","?">>}

\* what chatAboutCountry answers: a reply, a reply with places, a failure
ChatOutcomes == {"reply", "places", "error"}

\* the text of the message appended for an outcome: res.reply, or the
\* apology of the catch block
ChatReplyText(o) ==
  IF o = "error"
  THEN <<"S","o","r","r","y",","," ","c","o","u","l","d","n","'","t"," ",
         "r","e","s","p","o","n","d","."," ","T","r","y"," ","a","g","a","i","n",".">>
  ELSE <<"J","a","p","a","n"," ","i","s"," ","s","a","f","e",".">>

\* const country = tabs.find(t => t.id === activeTabId)?.country || null,
\* as a set with at most one element
ActiveCountries ==
  LET found == {k \in DOMAIN openTabs : openTabs[k].id = activeTabId}
  IN  IF found = {} THEN {}
      ELSE {openTabs[CHOOSE h \in found : \A g \in found : h <= g].country}

\* what decides the identity of sendMessage and with it the dependencies of
\* the auto-send effect: [activeTabId, country?._initialMessage, sendMessage],
\* sendMessage being rebuilt on [chatLoading, country, activeTabId, chatMap]
SendDeps ==
  [active |-> activeTabId, country |-> ActiveCountries,
   chatLoading |-> panel.chatLoading, chatMap |-> panel.chatMap]

\* the effects have run for what is rendered
EffectsDone == panel.seen = [tabs |-> openTabs, send |-> SendDeps]

\* the clean-up effect's updater: the entries of open tabs only
PruneMap(map, tabIds) == [x \in DOMAIN map \cap tabIds |-> map[x]]

\* sendMessage(msg), as built in the render p was taken from
sendMessage(p, msg) ==
  IF Falsy(msg) \/ p.chatLoading \/ ActiveCountries = {} \/ Falsy(activeTabId) THEN p
  ELSE [p EXCEPT
          !.chatMap = MapSet(@, activeTabId,
                             Append(MapGet(@, activeTabId), [role |-> "user", text |-> msg])),
          !.chatLoading = TRUE,
          !.chats = @ \cup {[tab |-> activeTabId, msg |-> msg]}]

\* the effects of CountryPanel that follow a render whose dependencies
\* changed: the clean-up effect on [tabs] prunes the maps; the auto-send
\* effect first runs the clean-up of its previous run (clearTimeout), then
\* returns unless the active tab has an _initialMessage that is not in
\* sentInitialRef, adds the tab to the ref and starts the 600 ms timer
PanelEffects ==
  /\ ~EffectsDone
  /\ LET tabsChanged == panel.seen.tabs # openTabs
         sendChanged == panel.seen.send # SendDeps
         initial == {c._initialMessage : c \in {d \in ActiveCountries : ~Falsy(d._initialMessage)}}
         starts == /\ sendChanged
                   /\ ~Falsy(activeTabId)
                   /\ initial # {}
                   /\ activeTabId \notin panel.sentInitial
     IN  /\ panel' = [panel EXCEPT
                        !.chatMap = IF tabsChanged THEN PruneMap(@, OpenTabIds) ELSE @,
                        !.timer = IF starts THEN {[tab |-> activeTabId, msg |-> msg] : msg \in initial}
                                  ELSE IF sendChanged THEN {}
                                  ELSE @,
                        !.sentInitial = IF starts THEN @ \cup {activeTabId} ELSE @,
                        !.seen = [tabs |-> openTabs, send |-> SendDeps]]
         /\ last' = Step("PanelEffects", activeTabId,
                         IF starts THEN "timer"
                         ELSE IF sendChanged /\ panel.timer # {} THEN "cleared"
                         ELSE "")
  /\ UNCHANGED <<openTabs, activeTabId, loading, error, recommendations, camera,
                 photoEntities, photoJobs, placePins, searchHistory, storedHistory,
                 geoCache, reqs, started, now>>

\* the 600 ms timer of the auto-send effect fires: sendMessage(_initialMessage)
AutoSendTimerFires ==
  /\ EffectsDone
  /\ \E t \in panel.timer :
       /\ panel' = sendMessage([panel EXCEPT !.timer = {}], t.msg)
       /\ last' = Step("AutoSendTimerFires", t.tab,
                       IF panel.chatLoading THEN "dropped" ELSE "sent")
  /\ UNCHANGED <<openTabs, activeTabId, loading, error, recommendations, camera,
                 photoEntities, photoJobs, placePins, searchHistory, storedHistory,
                 geoCache, reqs, started, now>>

\* handleChat / handlePill: the user sends a message in the active tab
\* (events are handled after the effects of the last render have run)
UserSendsMessage(msg) ==
  /\ EffectsDone
  /\ ActiveCountries # {}
  /\ panel.sends < MaxChatMessages
  /\ panel' = sendMessage([panel EXCEPT !.sends = @ + 1], msg)
  /\ last' = Step("UserSendsMessage", activeTabId,
                  IF panel.chatLoading THEN "dropped" ELSE "sent")
  /\ UNCHANGED <<openTabs, activeTabId, loading, error, recommendations, camera,
                 photoEntities, photoJobs, placePins, searchHistory, storedHistory,
                 geoCache, reqs, started, now>>

\* await chatAboutCountry(...) settles for the request c: the reply, or the
\* apology of the catch block, is appended under the tab id the call
\* captured, and chatLoading is cleared; a reply with places also shows
\* the pins and flies the camera (desktop layout). The continuation runs
\* after the effects of the last render.
ChatReplySettles(c) ==
  /\ EffectsDone
  /\ c \in panel.chats
  /\ \E o \in ChatOutcomes :
       /\ panel' = [panel EXCEPT
                      !.chatMap = MapSet(@, c.tab,
                                         Append(MapGet(@, c.tab),
                                                [role |-> "ai", text |-> ChatReplyText(o)])),
                      !.chatLoading = FALSE,
                      !.chats = @ \ {c}]
       /\ last' = Step("ChatReplySettles", c.tab, o)
       /\ IF o = "places" THEN
            /\ placePins' = TRUE
            /\ \E first \in {[lat |-> 35, lng |-> 139]} :
                 camera' = flyTo(first.lat, first.lng, DefaultAltitude)
          ELSE UNCHANGED <<placePins, camera>>
  /\ UNCHANGED <<openTabs, activeTabId, loading, error, recommendations,
                 photoEntities, photoJobs, searchHistory, storedHistory,
                 geoCache, reqs, started, now>>

\* ------------------------------------------------------------------------
\* The application
\* ------------------------------------------------------------------------

Next ==
  \/ \E i \in Inputs : SubmitQuery(i)
  \/ \E term \in Inputs : HistoryItemClick(term)
  \/ \E m \in ImageMessages : handleImageExplore(m)
  \/ \E k \in DOMAIN countries, d \in ClickOffsets : handleCountryClick(k, d)
  \/ \E r \in Slots : GeolocationSettles(r)
  \/ \E r \in Slots : NearbySearchSettles(r)
  \/ \E r \in Slots : LocateReverseGeocodeSettles(r)
  \/ \E r \in Slots : LocateResolveSettles(r)
  \/ \E r \in Slots : ResolvePlaceSettles(r)
  \/ \E r \in Slots : RecommendationsSettle(r)
  \/ \E r \in Slots : ResolveImageSettles(r)
  \/ \E r \in Slots : ClickReverseGeocodeSettles(r)
  \/ \E t \in OpenTabIds : handleTabClose(t)
  \/ \E t \in OpenTabIds : TabClick(t)
  \/ \E job \in BagToSet(photoJobs) : PhotoLookupSettles(job)
  \/ \E job \in BagToSet(photoJobs) : PhotoImageSettles(job)
  \/ Tick
  \/ TickCacheLifetime
  \/ DismissError
  \/ \E term \in NewTerms : AddSearchCall(term)
  \/ ClearHistoryCall
  \/ PanelEffects
  \/ AutoSendTimerFires
  \/ \E msg \in ChatMessages : UserSendsMessage(msg)
  \/ \E c \in panel.chats : ChatReplySettles(c)

Spec == Init /\ [][Next]_vars

\* The text queries alone: handleExplore with its continuations, tab close
\* and tab click. Photo lookups are started but left pending, and image
\* search, globe clicks and error dismissal are left out: none of them
\* writes a variable that handleExplore or its continuations read, except
\* the tab list, which the queries fill themselves.
NextNavigate ==
  \/ \E i \in Inputs : SubmitQuery(i)
  \/ \E term \in Inputs : HistoryItemClick(term)
  \/ \E r \in Slots : GeolocationSettles(r)
  \/ \E r \in Slots : NearbySearchSettles(r)
  \/ \E r \in Slots : LocateReverseGeocodeSettles(r)
  \/ \E r \in Slots : LocateResolveSettles(r)
  \/ \E r \in Slots : ResolvePlaceSettles(r)
  \/ \E r \in Slots : RecommendationsSettle(r)
  \/ \E t \in OpenTabIds : handleTabClose(t)
  \/ \E t \in OpenTabIds : TabClick(t)
  \/ Tick

SpecNavigate == Init /\ [][NextNavigate]_vars

\* The text and image queries with everything they await, and history
\* clicks, which start a query while another is loading. Tab close, tab click
\* and the clock are left out: none of them writes loading, error or a
\* suspended request. Every awaited call settles: the browser's geolocation
\* request has a 10 s timeout, the axios client a 120 s timeout.
NextExplore ==
  \/ \E i \in Inputs : SubmitQuery(i)
  \/ \E term \in Inputs : HistoryItemClick(term)
  \/ \E m \in ImageMessages : handleImageExplore(m)
  \/ \E r \in Slots : GeolocationSettles(r)
  \/ \E r \in Slots : NearbySearchSettles(r)
  \/ \E r \in Slots : LocateReverseGeocodeSettles(r)
  \/ \E r \in Slots : LocateResolveSettles(r)
  \/ \E r \in Slots : ResolvePlaceSettles(r)
  \/ \E r \in Slots : RecommendationsSettle(r)
  \/ \E r \in Slots : ResolveImageSettles(r)

SpecExplore ==
  /\ Init /\ [][NextExplore]_vars
  /\ \A r \in Slots :
       /\ WF_vars(GeolocationSettles(r))
       /\ WF_vars(NearbySearchSettles(r))
       /\ WF_vars(LocateReverseGeocodeSettles(r))
       /\ WF_vars(LocateResolveSettles(r))
       /\ WF_vars(ResolvePlaceSettles(r))
       /\ WF_vars(RecommendationsSettle(r))
       /\ WF_vars(ResolveImageSettles(r))

\* the queries that open a tab: static country hit (plain and agent),
\* resolver or recommendations, locate-me
PhotoInputs == {Q_japan, Q_weather_japan, Q_eiffel, Q_find_me}

\* Every way a tab is opened, the photo lookups that follow, and tab close
NextPhotos ==
  \/ \E i \in PhotoInputs : SubmitQuery(i)
  \/ \E m \in ImageMessages : handleImageExplore(m)
  \/ \E k \in DOMAIN countries, d \in ClickOffsets : handleCountryClick(k, d)
  \/ \E r \in Slots : GeolocationSettles(r)
  \/ \E r \in Slots : LocateReverseGeocodeSettles(r)
  \/ \E r \in Slots : LocateResolveSettles(r)
  \/ \E r \in Slots : ResolvePlaceSettles(r)
  \/ \E r \in Slots : RecommendationsSettle(r)
  \/ \E r \in Slots : ResolveImageSettles(r)
  \/ \E r \in Slots : ClickReverseGeocodeSettles(r)
  \/ \E t \in OpenTabIds : handleTabClose(t)
  \/ \E job \in BagToSet(photoJobs) : PhotoLookupSettles(job)
  \/ \E job \in BagToSet(photoJobs) : PhotoImageSettles(job)

SpecPhotos == Init /\ [][NextPhotos]_vars

\* ------------------------------------------------------------------------
\* The tab session on its own: useGlobe's addTab called with any of a few
\* country objects, at any time
\* ------------------------------------------------------------------------

\* country objects as the callers of addTab build them: a gazetteer country,
\* the same country with a place name, another country, an agent tab
TabCountries ==
  { countries[1],
    [countries[1] EXCEPT !._placeName = <<"T","o","k","y","o">>],
    [countries[1] EXCEPT !._placeName = JSNull],
    countries[2],
    AgentCountry(Q_question, 0) }

\* addTab(country), from any caller
AddTabCall(country) ==
  /\ Len(openTabs) < MaxTabs \/ FindExisting(openTabs, country) # {}
  /\ last' = Step("addTab", country.code,
                  IF FindExisting(openTabs, country) # {} THEN "existing" ELSE "new")
  /\ LET a == addTab(openTabs, country, NullScore, JSNull, now)
     IN  /\ openTabs' = a.tabs
         /\ activeTabId' = a.active
  /\ UNCHANGED <<loading, error, recommendations, camera, photoEntities, photoJobs,
                 placePins, searchHistory, storedHistory, panel, geoCache, reqs, started, now>>

NextTabs ==
  \/ \E c \in TabCountries : AddTabCall(c)
  \/ \E t \in OpenTabIds : handleTabClose(t)
  \/ \E t \in OpenTabIds : TabClick(t)
  \/ Tick

SpecTabs == Init /\ [][NextTabs]_vars

\* ------------------------------------------------------------------------
\* Properties of the tab session
\* ------------------------------------------------------------------------

\* the tabs that are open for the (code, _placeName) pair of a country object
OpenForPair(country) ==
  {k \in DOMAIN openTabs : /\ openTabs[k].country.code = country.code
                           /\ openTabs[k].country._placeName = country._placeName}

\* C1: in every reachable state of the tab session no two open tabs carry
\* the same (country code, _placeName) pair, and addTab for a pair that is
\* already open creates nothing: the list and its length stay as they are and
\* the id returned (and activated) is the id of the tab open for the pair.
C1_OneTabPerPair ==
  /\ \A j, k \in DOMAIN openTabs :
        (/\ openTabs[j].country.code = openTabs[k].country.code
         /\ openTabs[j].country._placeName = openTabs[k].country._placeName) => j = k
  /\ \A c \in TabCountries :
        OpenForPair(c) # {} =>
          LET a == addTab(openTabs, c, NullScore, JSNull, now)
          IN  /\ a.tabs = openTabs
              /\ Len(a.tabs) = Len(openTabs)
              /\ \A k \in OpenForPair(c) : a.id = openTabs[k].id /\ a.active = a.id

\* C1 witness: addTab has just been called for a pair that was open, while
\* two tabs with the same country code and different place names are open
C1_Witness ==
  /\ last.op = "addTab" /\ last.outcome = "existing"
  /\ \E j, k \in DOMAIN openTabs :
        /\ j # k
        /\ openTabs[j].country.code = openTabs[k].country.code
        /\ openTabs[j].country._placeName # openTabs[k].country._placeName
  /\ \E k \in DOMAIN openTabs : openTabs[k].country.code = last.arg /\ activeTabId = openTabs[k].id

\* C2: activeTabId is null or the id of a tab in the open-tab list, after any
\* sequence of addTab, removeTab and setActiveTabId calls.
C2_ActiveTabIsOpen ==
  activeTabId = JSNull \/ \E k \in DOMAIN openTabs : openTabs[k].id = activeTabId

\* C2 witness: the active tab has just been closed and other tabs remain
C2_Witness ==
  /\ last.op = "handleTabClose" /\ last.outcome = "active"
  /\ openTabs # <<>>
  /\ activeTabId # JSNull

\* C3: removeTab(tabId) leaves the tabs with another id, in order; when
\* tabId was the active tab the active tab becomes the last tab of the
\* remaining list, or null when none remains; when tabId was open and not
\* active the active tab id is unchanged.
C3_RemoveTabSelectsLast ==
  [][\A t \in OpenTabIds :
       handleTabClose(t) =>
         LET remaining == SelectSeq(openTabs, LAMBDA x : x.id # t)
         IN  /\ openTabs' = remaining
             /\ activeTabId' = IF activeTabId = t
                                THEN IF remaining = <<>> THEN JSNull
                                     ELSE remaining[Len(remaining)].id
                                ELSE activeTabId]_vars

\* C3 witness: the active tab has just been closed, two or more tabs with
\* different ids remain and the last of them is active
C3_Witness ==
  /\ last.op = "handleTabClose" /\ last.outcome = "active"
  /\ Len(openTabs) >= 2
  /\ openTabs[1].id # openTabs[Len(openTabs)].id
  /\ activeTabId = openTabs[Len(openTabs)].id

\* ------------------------------------------------------------------------
\* Properties of the photo markers
\* ------------------------------------------------------------------------

\* C4: after handleTabClose(tabId) no photo marker that was pinned on behalf
\* of that tab remains on the globe, however the tab was opened or
\* re-activated.
C4_CloseReleasesMarkers ==
  [][\A t \in OpenTabIds :
       handleTabClose(t) => \A e \in BagToSet(photoEntities') : e.forTab # t]_vars

\* C5: the completion of a photo lookup whose tab has been closed in the
\* meantime adds no marker to the globe.
C5_StaleLookupIgnored ==
  [][\A job \in BagToSet(photoJobs) :
       (PhotoImageSettles(job) /\ job.forTab \notin OpenTabIds)
         => photoEntities' = photoEntities]_vars

\* ------------------------------------------------------------------------
\* Properties of handleExplore
\* ------------------------------------------------------------------------

\* an input that is neither a near-me nor a locate-me query
NotGeo(c) == ~c.nearMe /\ ~c.locateMe

\* the continents whose name the normalized input equals or contains
ContinentsIn(interests) ==
  LET place == extractPlace(interests)
  IN  {k \in DOMAIN CONTINENTS :
         place = CONTINENTS[k].name \/ includes(place, CONTINENTS[k].name)}

\* the step is the end of a handleExplore call for an agent query: the call
\* itself when it suspends nothing, or the resolver's answer
EndsAgentQuery ==
  \/ last'.op = "handleExplore" /\ reqs' = reqs
  \/ last'.op = "ResolvePlaceSettles"

\* the step has appended exactly one tab, which is the active one
AppendedTab ==
  /\ Len(openTabs') = Len(openTabs) + 1
  /\ SubSeq(openTabs', 1, Len(openTabs)) = openTabs
  /\ openTabs'[Len(openTabs')].id = activeTabId'

\* C6: for an agent query that is neither near-me nor locate-me,
\* handleExplore ends with a tab opened or activated whose initialMessage is
\* the original sentence: the tab of the located place when the static check
\* yields a country or the resolver returns a name, the synthetic chat-only
\* agent tab when the resolver returns no name or fails. (Stated for the
\* requests that come that far: a static continent hit and a resolver
\* rejection with HTTP 401 end the request earlier and are left out.)
C6_AgentQueryCarriesSentence ==
  [][EndsAgentQuery =>
       LET i == last'.arg
           c == InputInfo[i]
           excused == \/ last'.op = "handleExplore" /\ c.location.type = "continent"
                      \/ last'.op = "ResolvePlaceSettles" /\ last'.outcome = "401"
       IN  (c.agentQuery /\ NotGeo(c) /\ ~excused) =>
             \E k \in DOMAIN openTabs' :
               /\ openTabs'[k].id = activeTabId'
               /\ openTabs'[k].country._initialMessage = i
               /\ (last'.op = "ResolvePlaceSettles" /\ last'.outcome # "ok")
                    => openTabs'[k].country._chatOnly]_vars

\* C7: detectLocation returns a continent whenever the normalized input
\* equals or contains a continent name, also when it equals or contains a
\* gazetteer country name; and when detectLocation returns a result,
\* handleExplore starts no resolver call and no recommendation call: the
\* request ends in the same step, with nothing suspended.
C7_ContinentFirstShortCircuit ==
  [][last'.op = "handleExplore" =>
       LET i == last'.arg
           c == InputInfo[i]
           loc == detectLocation(i, countries)
       IN  /\ ContinentsIn(i) # {} => loc.type = "continent"
           /\ (NotGeo(c) /\ ContinentsIn(i) # {}) => openTabs' = openTabs
           /\ (NotGeo(c) /\ loc.type # "none") =>
                /\ reqs' = reqs
                /\ loading' = loading
                /\ recommendations' = recommendations]_vars

\* C7 witness: "Australia", a continent name and a country name, has moved
\* the camera to the continent, opened no tab for the country and left no
\* request suspended
C7_Witness ==
  /\ last.op = "handleExplore" /\ last.arg = Q_australia
  /\ camera = [lat |-> -25, lng |-> 135, alt |-> 5000000]
  /\ \A k \in DOMAIN openTabs : openTabs[k].country.code # <<"A","U">>
  /\ \A r \in Slots : reqs[r].pc = "idle"

C9_NonAgentGibberishRejected ==
  [][last'.op = "handleExplore" =>
       LET c == InputInfo[last'.arg]
       IN  (~c.agentQuery /\ c.gibberish /\ c.location.type = "none") =>
             /\ error' = GibberishError
             /\ reqs' = reqs
             /\ UNCHANGED <<openTabs, activeTabId, camera>>]_vars

\* C9 amended: for a plain input (not near-me, not locate-me, not an agent
\* query) whose fragment is gibberish and that has no static hit,
\* handleExplore sets the validation error, starts no remote call, adds or
\* activates no tab and does not move the camera.
C9_PlainGibberishRejected ==
  [][last'.op = "handleExplore" =>
       LET c == InputInfo[last'.arg]
       IN  (NotGeo(c) /\ ~c.agentQuery /\ c.gibberish /\ c.location.type = "none") =>
             /\ error' = GibberishError
             /\ reqs' = reqs
             /\ UNCHANGED <<openTabs, activeTabId, camera, photoJobs, recommendations>>]_vars

\* C9 witness: "hello" has been rejected while a tab was open
C9_Witness ==
  /\ last.op = "handleExplore" /\ last.arg = Q_gibberish
  /\ error = GibberishError
  /\ openTabs # <<>>
  /\ camera # HomeCamera

\* the slots whose request the step has moved
Moved == {r \in Slots : reqs'[r] # reqs[r]}

\* a plain input with no static hit and a fragment that is not gibberish
PlainUnknownPlace(c) ==
  NotGeo(c) /\ ~c.agentQuery /\ c.location.type = "none" /\ ~c.gibberish

\* handleExplore suspends at resolvePlace(fragment) and touches no tab
CallsResolverWithFragment(i) ==
  /\ Cardinality(Moved) = 1
  /\ \A r \in Moved : /\ reqs[r].pc = "idle"
                      /\ reqs'[r].pc = "resolve"
                      /\ reqs'[r].arg = extractPlace(i)
  /\ UNCHANGED <<openTabs, activeTabId, camera>>

\* C10 as stated: for a plain input with no static hit and a fragment that
\* is not gibberish, handleExplore calls the resolver with the fragment; a
\* name in the answer opens or activates a tab and no recommendation call is
\* made; a failure or an answer without a name falls through to the
\* recommendation flow.
C10_ResolverThenRecommendations ==
  [][/\ last'.op = "handleExplore" =>
          (PlainUnknownPlace(InputInfo[last'.arg]) => CallsResolverWithFragment(last'.arg))
     /\ (last'.op = "ResolvePlaceSettles" /\ ~InputInfo[last'.arg].agentQuery) =>
          /\ Cardinality(Moved) = 1
          /\ \A r \in Moved :
               /\ reqs[r].pc = "resolve" /\ reqs[r].interests = last'.arg
               /\ IF last'.outcome = "ok"
                  THEN /\ reqs'[r].pc = "idle"
                       /\ \E k \in DOMAIN openTabs' : openTabs'[k].id = activeTabId'
                  ELSE reqs'[r].pc = "recs"]_vars

\* C10 amended: for a plain input with no static hit and a fragment that is
\* not gibberish, handleExplore calls the resolver with the fragment; a name
\* in the answer opens or activates a tab and no recommendation call is
\* made; an answer without a name, or a failure other than HTTP 401, falls
\* through to the recommendation flow with the tabs untouched; a rejection
\* with HTTP 401 sets the API-key error and ends the request: no
\* recommendation call, no tab.
C10_ResolverThenRecommendationsUnless401 ==
  [][/\ last'.op = "handleExplore" =>
          (PlainUnknownPlace(InputInfo[last'.arg]) => CallsResolverWithFragment(last'.arg))
     /\ (last'.op = "ResolvePlaceSettles" /\ ~InputInfo[last'.arg].agentQuery) =>
          /\ Cardinality(Moved) = 1
          /\ \A r \in Moved :
               /\ reqs[r].pc = "resolve" /\ reqs[r].interests = last'.arg
               /\ CASE last'.outcome = "ok" ->
                         /\ reqs'[r].pc = "idle"
                         /\ \E k \in DOMAIN openTabs' : openTabs'[k].id = activeTabId'
                         /\ openTabs' = openTabs \/ AppendedTab
                    [] last'.outcome = "401" ->
                         /\ reqs'[r].pc = "idle"
                         /\ error' = ApiKeyError
                         /\ loading' = FALSE
                         /\ UNCHANGED <<openTabs, activeTabId, camera>>
                    [] OTHER ->
                         /\ reqs'[r].pc = "recs"
                         /\ UNCHANGED <<openTabs, activeTabId, camera, error>>]_vars

\* C10 witness: the resolver has failed (not with 401) for "Eiffel Tower" and
\* the request is waiting for the recommendations
C10_Witness ==
  /\ last.op = "ResolvePlaceSettles" /\ last.arg = Q_eiffel
  /\ last.outcome = "error"
  /\ \E r \in Slots : reqs[r].pc = "recs" /\ reqs[r].interests = Q_eiffel
  /\ loading

\* ------------------------------------------------------------------------
\* Properties of the recommendation, near-me and locate-me flows
\* ------------------------------------------------------------------------

\* the gazetteer entries with a country code
GazetteerByCode(code) == {k \in DOMAIN countries : countries[k].code = code}

\* C11: when getRecommendations succeeds with a non-empty ranking whose top
\* country is in the gazetteer, the tab that is active afterwards is a tab for
\* that country carrying the top result's score and insight, and the camera
\* has flown to the country (at the recommendation altitude).
C11_TopRecommendationTab ==
  [][\A r \in Slots :
       (/\ RecommendationsSettle(r)
        /\ last'.outcome = "ok"
        /\ GazetteerByCode(recommendations'[1].code) # {})
       => LET top == recommendations'[1]
              k == CHOOSE h \in GazetteerByCode(top.code) :
                     \A g \in GazetteerByCode(top.code) : h <= g
          IN  /\ \E t \in DOMAIN openTabs' :
                   /\ openTabs'[t].id = activeTabId'
                   /\ openTabs'[t].country.code = top.code
                   /\ openTabs'[t].score = top.score
                   /\ openTabs'[t].insight = top.insight
              /\ camera' = [lat |-> countries[k].lat, lng |-> countries[k].lng,
                            alt |-> RecommendationAltitude]]_vars

\* a near-me request fails at this step: requestLocation rejects, or the
\* nearby search rejects or returns no place
NearMeFails(r) ==
  \/ /\ GeolocationSettles(r) /\ reqs[r].pc = "near_geo" /\ last'.outcome = "error"
  \/ /\ NearbySearchSettles(r) /\ last'.outcome # "ok"

C13_LocateMeFlow ==
  [][\A r \in Slots :
       /\ (GeolocationSettles(r) /\ reqs[r].pc = "locate_geo" /\ last'.outcome = "ok")
            => /\ camera'.lat = reqs'[r].lat /\ camera'.lng = reqs'[r].lng
               /\ reqs'[r].lat = (IF reqs[r].cached THEN reqs[r].lat ELSE DevicePosition.lat)
               /\ reqs'[r].lng = (IF reqs[r].cached THEN reqs[r].lng ELSE DevicePosition.lng)
       /\ (LocateResolveSettles(r) /\ last'.outcome = "ok")
            => \E t \in DOMAIN openTabs' : openTabs'[t].id = activeTabId'
       /\ (LocateResolveSettles(r) /\ last'.outcome # "ok")
            => /\ openTabs' = openTabs /\ activeTabId' = activeTabId
               /\ error' \in {error, NoError}]_vars

\* C14: whatever the calls of handleExplore and handleImageExplore answer
\* (data, nothing usable, a failure, HTTP 401), as long as each awaited call
\* settles, a raised loading flag is eventually lowered again.
C14_LoadingEventuallyFalse == loading ~> ~loading

\* a request has gone through resolver and recommendation call, the latter
\* rejected with HTTP 401, and nothing is loading or suspended any more
C14_Witness ==
  /\ last.op = "RecommendationsSettle" /\ last.outcome = "401"
  /\ ~loading
  /\ \A r \in Slots : reqs[r].pc = "idle"

\* the steps at which a remote call made for handleExplore or
\* handleImageExplore settles
RemoteCallSettles ==
  {"ResolvePlaceSettles", "LocateResolveSettles", "ResolveImageSettles",
   "RecommendationsSettle", "NearbySearchSettles"}

\* C15: whenever a remote call made for handleExplore or handleImageExplore
\* (place resolution, image resolution, recommendations, nearby search) is
\* rejected with HTTP 401, the error shown is the invalid-API-key message.
C15_UnauthorizedHasOwnMessage ==
  [][(last'.op \in RemoteCallSettles /\ last'.outcome = "401")
       => error' = ApiKeyError]_vars

\* ------------------------------------------------------------------------
\* useGeolocation under the queries that call requestLocation, with the
\* clock running past the cache lifetime
\* ------------------------------------------------------------------------

\* the near-me and locate-me inputs
LocationInputs == {Q_gibberish_near_me, Q_cafes_near_me, Q_find_me}

NextGeolocation ==
  \/ \E i \in LocationInputs : SubmitQuery(i)
  \/ \E term \in LocationInputs : HistoryItemClick(term)
  \/ \E r \in Slots : GeolocationSettles(r)
  \/ \E r \in Slots : NearbySearchSettles(r)
  \/ \E r \in Slots : LocateReverseGeocodeSettles(r)
  \/ \E r \in Slots : LocateResolveSettles(r)
  \/ Tick
  \/ TickCacheLifetime

SpecGeolocation == Init /\ [][NextGeolocation]_vars

\* ------------------------------------------------------------------------
\* The chat of CountryPanel on its own: tabs opened with and without an
\* _initialMessage, tab clicks and tab closes, at any time
\* ------------------------------------------------------------------------

\* the country objects addTab is called with: a gazetteer country (a plain
\* query or a click), the same country from an agent query (handleExplore's
\* static hit with _initialMessage), the synthetic agent tab of _openAgentTab
ChatCountries ==
  { countries[1],
    [countries[1] EXCEPT !._initialMessage = Q_weather_japan],
    AgentCountry(Q_question, 0) }

\* addTab, a tab close and a tab click once the effects of the last render
\* have run
PanelAddTab(country) == EffectsDone /\ AddTabCall(country)
PanelTabClose(tabId) == EffectsDone /\ handleTabClose(tabId)
PanelTabClick(tabId) == EffectsDone /\ TabClick(tabId)

NextChat ==
  \/ \E c \in ChatCountries : PanelAddTab(c)
  \/ \E t \in OpenTabIds : PanelTabClose(t)
  \/ \E t \in OpenTabIds : PanelTabClick(t)
  \/ PanelEffects
  \/ AutoSendTimerFires
  \/ \E msg \in ChatMessages : UserSendsMessage(msg)
  \/ \E c \in panel.chats : ChatReplySettles(c)

\* React runs the pending effects, the browser fires a pending timer, and
\* every request is answered or fails
SpecChat ==
  /\ Init /\ [][NextChat]_vars
  /\ WF_vars(PanelEffects)
  /\ WF_vars(AutoSendTimerFires)
  /\ WF_vars(\E c \in panel.chats : ChatReplySettles(c))

\* ------------------------------------------------------------------------
\* The pure functions of App.jsx on their own: extractPlace, isAgentQuery and
\* detectLocation applied to a text and a gazetteer
\* ------------------------------------------------------------------------

\* texts are put together from up to two leading phrases, a core and an ending
Leads == {<<>>, <<" ">>, <<"g","o"," ","t","o"," ">>, <<"v","i","s","i","t"," ">>, <<"S","h","o","w"," ","m","e"," ">>}
Cores ==
  {<<"N","i","g","e","r">>, <<"n","i","g","e","r","i","a">>, <<"s","u","d","a","n">>, <<"S","o","u","t","h"," ","S","u","d","a","n">>,
   <<"a","s","i","a">>, <<"w","h","y">>, <<"p","i","z","z","a"," ","n","e","a","r"," ","m","e">>, <<"w","h","e","r","e"," ","a","m"," ","i">>}
Endings == {<<>>, <<"?">>}
Texts == {a \o b \o c \o d : a \in Leads, b \in Leads, c \in Cores, d \in Endings}

\* single words for looksLikeGibberish: short, block-listed, without a vowel,
\* with y as the only vowel, with a long run of consonants, ordinary
Words ==
  {<<"h","i">>, <<"h","e","l","l","o">>, <<"S","t","r","s","t","r">>, <<"x","y","z","z","q","q">>, <<"T","o","k","y","o">>,
   <<"a","b","c","d","f","g","h","j">>, <<"S","t","."," ","J","o","h","n","'","s">>, <<"a","1","b","2">>}

\* gazetteer entries of which one name starts with, or contains, another
SampleCountries ==
  {Country(<<"N","i","g","e","r">>, <<"N","E">>, 17, 8),
   Country(<<"N","i","g","e","r","i","a">>, <<"N","G">>, 9, 8),
   Country(<<"S","u","d","a","n">>, <<"S","D">>, 15, 30),
   Country(<<"S","o","u","t","h"," ","S","u","d","a","n">>, <<"S","S">>, 7, 30)}

\* the gazetteer in every order getCountries() may deliver it
Gazetteers ==
  {g \in [1..Cardinality(SampleCountries) -> SampleCountries] :
     \A i, j \in DOMAIN g : g[i] = g[j] => i = j}

\* everything but the bookkeeping variable
appVars == <<openTabs, activeTabId, loading, error, recommendations, camera,
             photoEntities, photoJobs, placePins, searchHistory, storedHistory, panel, geoCache, reqs,
             started, now>>

\* the application as constructed, with a text and a gazetteer drawn
InitClassify ==
  /\ openTabs = <<>>
  /\ activeTabId = JSNull
  /\ loading = FALSE
  /\ error = NoError
  /\ recommendations = <<>>
  /\ camera = HomeCamera
  /\ photoEntities = EmptyBag
  /\ photoJobs = EmptyBag
  /\ placePins = FALSE
  /\ searchHistory = <<>>
  /\ storedHistory = JSNull
  /\ panel = InitPanel
  /\ geoCache = EmptyGeoCache
  /\ reqs = [r \in Slots |-> IdleReq]
  /\ started = 0
  /\ now = 0
  /\ \/ \E s \in Texts, g \in Gazetteers :
          last = Step("input", [text |-> s, gazetteer |-> g], "")
     \/ \E s \in Words :
          last = Step("input", [text |-> s, gazetteer |-> countries], "")

\* extractPlace(text)
ExtractPlaceCall ==
  /\ last.op = "input"
  /\ last' = Step("extractPlace", last.arg, extractPlace(last.arg.text))
  /\ UNCHANGED appVars

\* isAgentQuery(text)
IsAgentQueryCall ==
  /\ last.op = "input"
  /\ last' = Step("isAgentQuery", last.arg,
                  IF isAgentQuery(last.arg.text) THEN "true" ELSE "false")
  /\ UNCHANGED appVars

\* detectLocation(text, countries)
DetectLocationCall ==
  /\ last.op = "input"
  /\ last' = Step("detectLocation", last.arg,
                  detectLocation(last.arg.text, last.arg.gazetteer))
  /\ UNCHANGED appVars

\* looksLikeGibberish(text)
LooksLikeGibberishCall ==
  /\ last.op = "input"
  /\ last' = Step("looksLikeGibberish", last.arg,
                  IF looksLikeGibberish(last.arg.text) THEN "true" ELSE "false")
  /\ UNCHANGED appVars

NextClassify ==
  \/ ExtractPlaceCall
  \/ IsAgentQueryCall
  \/ DetectLocationCall
  \/ LooksLikeGibberishCall

SpecClassify == InitClassify /\ [][NextClassify]_vars

\* ------------------------------------------------------------------------
\* Properties of the classification
\* ------------------------------------------------------------------------

\* this handleExplore step takes the near-me branch and nothing else: the call
\* is suspended at requestLocation() with the text as submitted; no tab,
\* camera or recommendation changes, no other request is touched
TakesNearMeBranch ==
  /\ last'.outcome = "nearMe"
  /\ \E r \in Slots :
       /\ reqs[r].pc = "idle"
       /\ reqs'[r].pc = "near_geo" /\ reqs'[r].interests = last'.arg
       /\ \A q \in Slots \ {r} : reqs'[q] = reqs[q]
  /\ openTabs' = openTabs /\ activeTabId' = activeTabId
  /\ camera' = camera /\ recommendations' = recommendations

\* the text has the letters "near me" somewhere, in any letter case
HasNearMeLetters(s) == includes(toLowerCase(s), <<"n","e","a","r"," ","m","e">>)

\* the text has the word "near", blanks, and the word "me", in any letter case
SaysNearMe(s) ==
  LET l == toLowerCase(s)
  IN  \E i \in 1..Len(l), j \in 1..Len(l) :
        /\ j > i + 4
        /\ HasAt(l, <<"n","e","a","r">>, i) /\ AtWordBoundary(l, i)
        /\ \A k \in (i + 4)..(j - 1) : l[k] = " "
        /\ HasAt(l, <<"m","e">>, j) /\ AtWordBoundary(l, j + 2)

\* C16 as stated: every input that contains "near me", in any letter case,
\* takes the near-me branch of handleExplore and no other handling.
C16_NearMeLettersFirst ==
  [][(last'.op = "handleExplore" /\ HasNearMeLetters(last'.arg))
       => TakesNearMeBranch]_vars

\* C16, amended: every input in which the words "near" and "me" follow each
\* other (whole words, separated by white space, any letter case) takes the
\* near-me branch of handleExplore, whatever else it matches, and its request
\* only ever waits for the position or for the nearby search.
C16_NearMeWordsFirst ==
  [][/\ (last'.op = "handleExplore" /\ SaysNearMe(last'.arg)) => TakesNearMeBranch
     /\ \A r \in Slots :
          (reqs'[r].pc # "idle" /\ SaysNearMe(reqs'[r].interests))
            => reqs'[r].pc \in {"near_geo", "near_search"}]_vars

\* "Find me cafes in Japan NEAR ME" has been submitted and waits for the
\* position, with no tab opened for Japan
C16_Witness ==
  /\ last.op = "handleExplore" /\ last.arg = Q_cafes_near_me
  /\ \E r \in Slots : reqs[r].pc = "near_geo" /\ reqs[r].interests = Q_cafes_near_me
  /\ openTabs = <<>>

\* the text ends in a question mark
EndsInQuestionMark(s) == Len(s) > 0 /\ s[Len(s)] = "?"

\* C17: every input that ends in "?" and matches neither the near-me
\* pattern nor a locate-me pattern is an agent query: isAgentQuery returns
\* true, whatever else the input contains.
C17_QuestionIsAgentQuery ==
  (/\ last.op = "isAgentQuery"
   /\ EndsInQuestionMark(last.arg.text)
   /\ ~isNearMeQuery(last.arg.text)
   /\ ~isLocateMeQuery(last.arg.text))
  => last.outcome = "true"

\* isAgentQuery("sudan?") has returned true: nothing but the question mark
\* makes this text an agent query
C17_Witness ==
  /\ last.op = "isAgentQuery" /\ last.arg.text = <<"s","u","d","a","n","?">>
  /\ last.outcome = "true"
  /\ ~isAgentQuery(<<"s","u","d","a","n">>)

\* the gazetteer entries whose lower-cased name is the place
ExactMatches(place, gazetteer) ==
  {k \in DOMAIN gazetteer : toLowerCase(gazetteer[k].name) = place}

\* C18: when the normalized input equals the lower-cased name of a gazetteer
\* country and matches no continent, detectLocation returns that country, in
\* every order of the gazetteer, also when another country's name starts with
\* the input or is contained in it.
C18_ExactCountryMatchFirst ==
  last.op = "detectLocation" =>
    LET place == extractPlace(last.arg.text)
        noContinent == \A k \in DOMAIN CONTINENTS : ~includes(place, CONTINENTS[k].name)
    IN  (ExactMatches(place, last.arg.gazetteer) # {} /\ noContinent)
          => /\ last.outcome.type = "country"
             /\ toLowerCase(last.outcome.country.name) = place

\* C20: extractPlace is idempotent: extractPlace(extractPlace(s)) equals
\* extractPlace(s) for every text s.
C20_ExtractPlaceIdempotent ==
  last.op = "extractPlace" => extractPlace(last.outcome) = last.outcome

\* C19: with Japan and Thailand in the gazetteer, "compare Japan and
\* Thailand" is an agent query that gives no direct place result: the whole
\* sentence goes to the resolver and no country tab is opened; when the
\* resolver names no place, the request ends with the synthetic agent tab,
\* whose initial message is the sentence.
C19_CompareOpensAgentTab ==
  [][/\ (last'.op = "handleExplore" /\ last'.arg = Q_compare)
        => /\ isAgentQuery(Q_compare)
           /\ \E r \in Slots : /\ reqs[r].pc = "idle"
                               /\ reqs'[r].pc = "resolve"
                               /\ reqs'[r].arg = Q_compare
           /\ openTabs' = openTabs
     /\ (/\ last'.op = "ResolvePlaceSettles" /\ last'.arg = Q_compare
         /\ last'.outcome = "empty")
        => /\ Len(openTabs') = Len(openTabs) + 1
           /\ openTabs'[Len(openTabs')].id = activeTabId'
           /\ openTabs'[Len(openTabs')].country._chatOnly
           /\ openTabs'[Len(openTabs')].country._initialMessage = Q_compare]_vars

\* C21: extractPlace lower-cases and trims its input and removes at most
\* one prefix, the first entry of the prefix list that the string starts
\* with; the rest is returned trimmed, even if it starts with a listed prefix
\* again; without a matching prefix the trimmed lower-cased input is returned.
C21_ExtractPlaceStripsOnePrefix ==
  last.op = "extractPlace" =>
    LET lower == trim(toLowerCase(last.arg.text))
        hits == {k \in DOMAIN prefixes : startsWith(lower, prefixes[k])}
    IN  IF hits = {} THEN last.outcome = lower
        ELSE \E k \in hits :
               /\ \A g \in hits : k <= g
               /\ \E n \in 0..Len(lower) :
                    /\ lower = prefixes[k] \o SubSeq(lower, n + 1, Len(lower))
                    /\ last.outcome = trim(SubSeq(lower, n + 1, Len(lower)))

\* extractPlace("go to visit Niger") has returned "visit niger", which
\* starts with a listed prefix
C21_Witness ==
  /\ last.op = "extractPlace"
  /\ last.arg.text = <<"g","o"," ","t","o"," ","v","i","s","i","t"," ","N","i","g","e","r">>
  /\ last.outcome = <<"v","i","s","i","t"," ","n","i","g","e","r">>

\* the letters of a text, lower-cased
LettersOf(s) == SelectSeq(toLowerCase(s), LAMBDA c : c \in LowerLetters)

\* a, e, i, o, u
PlainVowels == {"a","e","i","o","u"}

\* C22: looksLikeGibberish(text) is true exactly when the letters of the
\* text, lower-cased, are fewer than 3, or are a block-listed word, or have no
\* vowel, or have 6 or more consonants in a row; "hi", "xyzzqq" and "Strstr"
\* are gibberish and "Tokyo" is not.
C22_GibberishRule ==
  last.op = "looksLikeGibberish" =>
    LET clean == LettersOf(last.arg.text)
        rule == \/ Len(clean) < 3
                \/ clean \in NON_PLACE_WORDS
                \/ \A i \in 1..Len(clean) : clean[i] \notin PlainVowels
                \/ \E i \in 1..Len(clean) :
                     /\ i + 5 <= Len(clean)
                     /\ \A k \in i..(i + 5) : clean[k] \notin PlainVowels
    IN  /\ (last.outcome = "true") <=> rule
        /\ last.arg.text \in {<<"h","i">>, <<"x","y","z","z","q","q">>, <<"S","t","r","s","t","r">>} => last.outcome = "true"
        /\ last.arg.text = <<"T","o","k","y","o">> => last.outcome = "false"

\* ------------------------------------------------------------------------
\* Properties of the search history, the geolocation cache and the tab ids
\* ------------------------------------------------------------------------

\* at most MAX_ITEMS terms, no two equal ignoring case, and localStorage
\* holds the list that is in memory
HistoryValid ==
  /\ Len(searchHistory) <= MAX_ITEMS
  /\ \A i, j \in DOMAIN searchHistory :
       toLowerCase(searchHistory[i]) = toLowerCase(searchHistory[j]) => i = j
  /\ load(storedHistory) = searchHistory

\* C23: after any sequence of addSearch and clearHistory calls on a valid
\* stored list, the history has at most 10 terms, no two of them equal
\* ignoring case, most recent first: addSearch puts its term in front of the
\* other terms, which keep their order, and a term that was present (ignoring
\* case) is moved, not duplicated; localStorage holds the same list.
C23_HistoryBoundedDistinctRecentFirst ==
  [][/\ HistoryValid'
     /\ last'.op = "addSearch" =>
          LET term == last'.arg
              others == SelectSeq(searchHistory,
                                  LAMBDA h : toLowerCase(h) # toLowerCase(term))
              kept == IF Len(others) < MAX_ITEMS THEN Len(others) ELSE MAX_ITEMS - 1
          IN  /\ searchHistory'[1] = term
              /\ Tail(searchHistory') = SubSeq(others, 1, kept)]_vars

\* "A" has been added to a full list that had "a": the list is still full,
\* "A" is in front and "a" is gone
C23_Witness ==
  /\ last.op = "addSearch" /\ last.arg = <<"A">> /\ last.outcome = "moved"
  /\ Len(searchHistory) = MAX_ITEMS
  /\ searchHistory[1] = <<"A">>
  /\ \A k \in DOMAIN searchHistory : searchHistory[k] # <<"a">>

\* requestLocation is called in this step by the request in slot r
CallsRequestLocation(r) ==
  reqs[r].pc = "idle" /\ reqs'[r].pc \in {"near_geo", "locate_geo"}

\* the requestLocation promise of slot r settles in this step
RequestLocationSettles(r) ==
  reqs[r].pc \in {"near_geo", "locate_geo"} /\ reqs'[r].pc # reqs[r].pc

C24_WitnessStale ==
  /\ last.op = "GeolocationSettles"
  /\ geoCache.set /\ geoCache.ts = CACHE_TTL
  /\ \E r \in Slots : ~reqs[r].cached /\ reqs[r].pc \in {"near_search", "locate_reverse"}

\* C25: every open tab has an id different from the id of every other open
\* tab, after any sequence of addTab calls and whatever time passes between
\* two calls, two calls for the same country code with different _placeName
\* in the same millisecond included.
C25_TabIdsDistinct ==
  \A j, k \in DOMAIN openTabs : openTabs[j].id = openTabs[k].id => j = k

\* ------------------------------------------------------------------------
\* Properties of the chat of CountryPanel
\* ------------------------------------------------------------------------

\* the ids the tabs of the chat session can get (the clock stands at 0)
ChatTabIds ==
  {NewTabId(c, 0) : c \in ChatCountries}

\* the tab t is open, was created with an _initialMessage, and its chat has
\* no user message with that text
AwaitsAutoSend(t) ==
  \E k \in DOMAIN openTabs :
    /\ openTabs[k].id = t
    /\ ~Falsy(openTabs[k].country._initialMessage)
    /\ ~\E i \in DOMAIN MapGet(panel.chatMap, t) :
          /\ panel.chatMap[t][i].role = "user"
          /\ panel.chatMap[t][i].text = openTabs[k].country._initialMessage

\* C26: for every tab created with an _initialMessage, the message is
\* eventually sent to that tab's chat unless the tab is closed, whatever
\* happens during the deferral of the auto-send (a chat request of another
\* tab in flight or completing, a change of the chat map, a tab switch, a
\* re-run of the effect).
C26_InitialMessageEventuallySent ==
  \A t \in ChatTabIds : AwaitsAutoSend(t) ~> ~AwaitsAutoSend(t)

\* C29: once the clean-up effect has run for the current tab list, the chat
\* map has entries for open tabs only, under every interleaving of
\* sendMessage, reply arrival and tab close: a reply or failure that arrives
\* after its tab was closed is discarded.
C29_ChatMapOnlyOpenTabs ==
  panel.seen.tabs = openTabs => DOMAIN panel.chatMap \subseteq OpenTabIds

\* ------------------------------------------------------------------------
\* Further properties of the photo markers and of handleExplore
\* ------------------------------------------------------------------------

\* C27: every photo lookup that a navigation starts carries the id of the
\* tab it opened or activated, so that its marker is stored under that id
\* and never under the default key; and a lookup that fails or finds no
\* photo changes neither the open tabs, the active tab, the error nor the
\* camera.
C27_PhotoKeyedByTabAndSilent ==
  [][/\ \A job \in BagToSet(photoJobs') : job.tabId = job.forTab
     /\ \A e \in BagToSet(photoEntities') : e.key # DefaultMarkerKey
     /\ \A job \in BagToSet(photoJobs) :
          (PhotoLookupSettles(job) /\ last'.outcome = "empty")
            => /\ openTabs' = openTabs /\ activeTabId' = activeTabId
               /\ error' = error /\ camera' = camera]_vars

\* handleExplore suspends in this step at resolvePlace(arg)
StartsResolver(arg) ==
  /\ Cardinality(Moved) = 1
  /\ \A r \in Moved : reqs[r].pc = "idle" /\ reqs'[r].pc = "resolve" /\ reqs'[r].arg = arg

\* what C28 says of a handleExplore call for the input i classified as c
ResolverRule(i, c) ==
  IF c.agentQuery THEN StartsResolver(i)
  ELSE IF ~c.gibberish THEN StartsResolver(extractPlace(i))
  ELSE reqs' = reqs

\* C28 as stated: for every agent query with no static hit handleExplore
\* calls the resolver with the whole sentence, whether or not the fragment is
\* gibberish; for a non-agent input the resolver is called with the
\* extracted fragment, and only when the fragment is not gibberish.
C28_ResolverArgument ==
  [][last'.op = "handleExplore" =>
       LET i == last'.arg
           c == InputInfo[i]
       IN  c.location.type = "none" => ResolverRule(i, c)]_vars

\* C28 for the inputs that reach the classification: as C28_ResolverArgument
\* for an input that is neither a near-me nor a locate-me query; and
\* handleExplore starts the resolver for no other input.
C28_ResolverArgumentAfterGeoChecks ==
  [][last'.op = "handleExplore" =>
       LET i == last'.arg
           c == InputInfo[i]
       IN  /\ (NotGeo(c) /\ c.location.type = "none") => ResolverRule(i, c)
           /\ (\E r \in Moved : reqs'[r].pc = "resolve")
                => NotGeo(c) /\ c.location.type = "none"]_vars

\* "why?" is an agent query whose fragment is gibberish, and handleExplore
\* has just called the resolver with it
C28_Witness ==
  /\ last.op = "handleExplore" /\ last.arg = Q_question
  /\ InputInfo[Q_question].agentQuery /\ InputInfo[Q_question].gibberish
  /\ InputInfo[Q_question].location.type = "none"
  /\ \E r \in Slots : /\ reqs[r].pc = "resolve"
                      /\ reqs[r].interests = Q_question /\ reqs[r].arg = Q_question

\* the calls of handleExplore that C30 names: geolocation, nearby search,
\* place resolution, recommendations
AwaitedByExplore ==
  {"near_geo", "locate_geo", "near_search", "resolve", "locate_resolve", "recs"}

\* C30: loading is true whenever at least one handleExplore request is
\* still awaiting a geolocation, nearby-search, place-resolution or
\* recommendation call, also when two requests overlap (the second started
\* from the search history while the first is suspended).
C30_LoadingWhileAwaiting ==
  (\E r \in Slots : reqs[r].pc \in AwaitedByExplore) => loading

====
